---- MODULE Spec2Model ----
(***************************************************************************)
(* Change detection of rto-intel: ChangeDetector (src/detection/differ.py) *)
(* and the event taxonomy (src/detection/events.py).                       *)
(*                                                                         *)
(* One detector object serves a sequence of detect_all_changes calls, one  *)
(* per monitored RTO.  A call walks the five endpoints in order; each loop *)
(* iteration is one step of the model.                                     *)
(*                                                                         *)
(* The later sections model what follows detection: the analyser           *)
(* (src/analysis/claude_client.py, AnalyserSpec), the tables of the        *)
(* database (src/storage/database.py, LifecycleSpec and BaselineSpec) and  *)
(* phases 3 and 4 of run_pipeline (src/main.py, PipelineSpec); then phase  *)
(* 2 over several runs (CycleSpec), the client of training.gov.au          *)
(* (src/collectors/tga_client.py, ClientSpec) and one whole run (RunSpec). *)
(* Each specification moves its own variables and leaves the others idle.  *)
(***************************************************************************)
EXTENDS Integers, Sequences, FiniteSets, TLC

(***************************************************************************)
(* Python values.  Every value is a record [t, v]: t is the Python type,   *)
(* v the content.  A dict keeps its entries in insertion order, as Python  *)
(* dicts do: v is a sequence of entries [k, x].                            *)
(***************************************************************************)
None == [t |-> "NoneType", v |-> <<>>]

PyStr(s) == [t |-> "str", v |-> s]

PyInt(i) == [t |-> "int", v |-> i]

PyList(items) == [t |-> "list", v |-> items]

PyDict(entries) == [t |-> "dict", v |-> entries]

Entry(k, x) == [k |-> k, x |-> x]

Dict1(k, x) == PyDict(<<Entry(k, x)>>)

Dict2(k1, x1, k2, x2) == PyDict(<<Entry(k1, x1), Entry(k2, x2)>>)

\* Longest list a payload holds.
MaxListLen == 2

SeqsUpTo(S, n) == UNION {[1..m -> S] : m \in 0..n}

Range(s) == {s[i] : i \in DOMAIN s}

(***************************************************************************)
(* The payloads the collector and the baseline store hand to the detector: *)
(* scope-like lists of items, registration-like objects, objects nesting   *)
(* an object or a list, and bare scalars (malformed payloads).             *)
(***************************************************************************)
StrVals == {"Active", "Suspended"}

Keys == {"status", "expiryDate", "EndDate", "name"}

StrScalars == {PyStr(s) : s \in StrVals}

Scalars == StrScalars \cup {PyInt(1)}

Items == {Dict1("code", PyStr("Active")), Dict1("code", PyStr("Suspended")),
          PyStr("Active")}

ListPayloads == {PyList(s) : s \in SeqsUpTo(Items, MaxListLen)}

FlatDicts ==
    {Dict1(k, x) : k \in Keys, x \in Scalars \cup {None}}
    \cup {Dict2(kk[1], x1, kk[2], x2) : kk \in {<<"status", "name">>, <<"name", "status">>},
                                         x1 \in StrScalars, x2 \in StrScalars}

NestedDicts ==
    {Dict1("status", Dict1("expiryDate", x)) : x \in StrScalars}
    \cup {Dict1("name", PyList(s)) : s \in SeqsUpTo(StrScalars, MaxListLen)}

Payloads == ListPayloads \cup FlatDicts \cup NestedDicts \cup {PyStr("Active"), PyInt(1)}

(***************************************************************************)
(* Text.  A dict key is a string; a DeepDiff path and the substring tests  *)
(* made on it work on its characters.                                      *)
(***************************************************************************)
Chars(s) ==
    CASE s = "status" -> <<"s", "t", "a", "t", "u", "s">>
      [] s = "expiryDate" -> <<"e", "x", "p", "i", "r", "y", "D", "a", "t", "e">>
      [] s = "EndDate" -> <<"E", "n", "d", "D", "a", "t", "e">>
      [] s = "name" -> <<"n", "a", "m", "e">>
      [] s = "code" -> <<"c", "o", "d", "e">>
      [] s = "expiry" -> <<"e", "x", "p", "i", "r", "y">>
      [] s = "end" -> <<"e", "n", "d">>
      [] s = "root" -> <<"r", "o", "o", "t">>

UpperCase == <<"A", "B", "C", "D", "E", "F", "G", "H", "I", "J", "K", "L", "M",
               "N", "O", "P", "Q", "R", "S", "T", "U", "V", "W", "X", "Y", "Z">>

LowerCase == <<"a", "b", "c", "d", "e", "f", "g", "h", "i", "j", "k", "l", "m",
               "n", "o", "p", "q", "r", "s", "t", "u", "v", "w", "x", "y", "z">>

\* str.lower()
Lower(text) ==
    [i \in DOMAIN text |->
        IF \E n \in DOMAIN UpperCase : UpperCase[n] = text[i]
        THEN LowerCase[CHOOSE n \in DOMAIN UpperCase : UpperCase[n] = text[i]]
        ELSE text[i]]

\* needle in hay
Contains(hay, needle) ==
    \E i \in 1..(Len(hay) - Len(needle) + 1) :
        SubSeq(hay, i, i + Len(needle) - 1) = needle

\* The text of a path one level deeper: root['key'], root[0].
KeyPath(path, k) == path \o <<"[", "'">> \o Chars(k) \o <<"'", "]">>

IndexPath(path, i) == path \o <<"[", ToString(i), "]">>

(***************************************************************************)
(* json.dumps(value) with the default arguments: the text, as its tokens.  *)
(* Keys are written in the dict's own order (no sort_keys).                *)
(***************************************************************************)
RECURSIVE json_dumps(_)
RECURSIVE dumps_items(_)
RECURSIVE dumps_entries(_)

dumps_items(items) ==
    IF Len(items) = 0 THEN <<>>
    ELSE json_dumps(items[1])
         \o (IF Len(items) > 1 THEN <<", ">> ELSE <<>>)
         \o dumps_items(Tail(items))

dumps_entries(entries) ==
    IF Len(entries) = 0 THEN <<>>
    ELSE <<"\"", entries[1].k, "\"", ": ">> \o json_dumps(entries[1].x)
         \o (IF Len(entries) > 1 THEN <<", ">> ELSE <<>>)
         \o dumps_entries(Tail(entries))

json_dumps(value) ==
    CASE value.t = "NoneType" -> <<"null">>
      [] value.t = "str" -> <<"\"", value.v, "\"">>
      [] value.t = "int" -> <<ToString(value.v)>>
      [] value.t = "list" -> <<"[">> \o dumps_items(value.v) \o <<"]">>
      [] value.t = "dict" -> <<"{">> \o dumps_entries(value.v) \o <<"}">>

\* The None of an Optional[str] field; json.dumps never returns empty text.
NoText == <<>>

(***************************************************************************)
(* dict access                                                             *)
(***************************************************************************)
DictKeys(d) == [i \in DOMAIN d.v |-> d.v[i].k]

DictGet(d, k) == d.v[CHOOSE i \in DOMAIN d.v : d.v[i].k = k].x

(***************************************************************************)
(* DeepDiff(t1, t2, ignore_order=True), text view: for each kind of delta  *)
(* the reported entries, in report order.  "kind in diff" is "the entries  *)
(* of that kind are not empty".                                            *)
(***************************************************************************)
NoDiff ==
    [type_changes |-> <<>>, values_changed |-> <<>>,
     dictionary_item_added |-> <<>>, dictionary_item_removed |-> <<>>,
     iterable_item_added |-> <<>>, iterable_item_removed |-> <<>>]

DiffKinds == DOMAIN NoDiff

Report(kind, entry) == [NoDiff EXCEPT ![kind] = <<entry>>]

Merge(a, b) == [kind \in DiffKinds |-> a[kind] \o b[kind]]

RECURSIVE MergeAll(_)
MergeAll(diffs) ==
    IF Len(diffs) = 0 THEN NoDiff ELSE Merge(diffs[1], MergeAll(Tail(diffs)))

\* Equal DeepHash under ignore_order: same type, same content, a list
\* counted as the set of its items (repetitions are not reported).
RECURSIVE DeepHashEq(_, _)
DeepHashEq(a, b) ==
    /\ a.t = b.t
    /\ CASE a.t = "dict" ->
              /\ Range(DictKeys(a)) = Range(DictKeys(b))
              /\ \A k \in Range(DictKeys(a)) : DeepHashEq(DictGet(a, k), DictGet(b, k))
         [] a.t = "list" ->
              /\ \A i \in DOMAIN a.v : \E j \in DOMAIN b.v : DeepHashEq(a.v[i], b.v[j])
              /\ \A j \in DOMAIN b.v : \E i \in DOMAIN a.v : DeepHashEq(a.v[i], b.v[j])
         [] OTHER -> a.v = b.v

\* The positions in xs (first of each repeated item) of the items whose hash
\* no item of ys has.
Unmatched(xs, ys) ==
    SelectSeq([i \in DOMAIN xs |-> i],
              LAMBDA i : /\ \A j \in DOMAIN ys : ~DeepHashEq(xs[i], ys[j])
                         /\ \A h \in 1..(i - 1) : ~DeepHashEq(xs[h], xs[i]))

\* The pairs DeepDiff makes of an added and a removed item that it finds
\* close enough to report as one changed item: here, in order, items of
\* the same type.
RECURSIVE PairUp(_, _, _, _)
PairUp(added, removed, xs, ys) ==
    IF Len(added) = 0 THEN <<>>
    ELSE LET a == added[1]
             cands == SelectSeq(removed, LAMBDA r : xs[r].t = ys[a].t)
         IN  IF Len(cands) = 0 THEN PairUp(Tail(added), removed, xs, ys)
             ELSE <<[a |-> a, r |-> cands[1]]>>
                  \o PairUp(Tail(added), SelectSeq(removed, LAMBDA r : r # cands[1]), xs, ys)

RECURSIVE Diff(_, _, _, _)

DiffDict(t1, t2, path, pairing) ==
    LET keys1 == DictKeys(t1)
        keys2 == DictKeys(t2)
        added == SelectSeq(keys2, LAMBDA k : k \notin Range(keys1))
        removed == SelectSeq(keys1, LAMBDA k : k \notin Range(keys2))
        common == SelectSeq(keys2, LAMBDA k : k \in Range(keys1))
    IN  Merge([NoDiff EXCEPT
                  !.dictionary_item_added = [n \in DOMAIN added |-> [path |-> KeyPath(path, added[n])]],
                  !.dictionary_item_removed = [n \in DOMAIN removed |-> [path |-> KeyPath(path, removed[n])]]],
              MergeAll([n \in DOMAIN common |->
                          Diff(DictGet(t1, common[n]), DictGet(t2, common[n]),
                               KeyPath(path, common[n]), pairing)]))

\* Mutant: the lists compared position by position (ignore_order dropped).
DiffIterableInOrder(t1, t2, path, pairing) ==
    LET xs == t1.v
        ys == t2.v
        both == IF Len(xs) < Len(ys) THEN Len(xs) ELSE Len(ys)
    IN  Merge(MergeAll([n \in 1..both |-> Diff(xs[n], ys[n], IndexPath(path, n - 1), pairing)]),
              [NoDiff EXCEPT
                  !.iterable_item_added =
                      [n \in 1..(Len(ys) - both) |->
                          [path |-> IndexPath(path, both + n - 1), value |-> ys[both + n]]],
                  !.iterable_item_removed =
                      [n \in 1..(Len(xs) - both) |->
                          [path |-> IndexPath(path, both + n - 1), value |-> xs[both + n]]]])

DiffIterable(t1, t2, path, pairing) ==
    LET xs == t1.v
        ys == t2.v
        removed == Unmatched(xs, ys)
        added == Unmatched(ys, xs)
        pairs == IF pairing THEN PairUp(added, removed, xs, ys) ELSE <<>>
        Paired(a) == \E n \in DOMAIN pairs : pairs[n].a = a
        Other(a) == pairs[CHOOSE n \in DOMAIN pairs : pairs[n].a = a].r
        left == SelectSeq(removed, LAMBDA r : \A n \in DOMAIN pairs : pairs[n].r # r)
    IN  Merge(MergeAll([n \in DOMAIN added |->
                          IF Paired(added[n])
                          THEN Diff(xs[Other(added[n])], ys[added[n]],
                                    IndexPath(path, Other(added[n]) - 1), pairing)
                          ELSE Report("iterable_item_added",
                                      [path |-> IndexPath(path, added[n] - 1),
                                       value |-> ys[added[n]]])]),
              [NoDiff EXCEPT
                  !.iterable_item_removed =
                      [n \in DOMAIN left |-> [path |-> IndexPath(path, left[n] - 1),
                                              value |-> xs[left[n]]]]])

Diff(t1, t2, path, pairing) ==
    IF t1.t # t2.t
    THEN Report("type_changes", [path |-> path, old_value |-> t1, new_value |-> t2])
    ELSE CASE t1.t = "dict" -> DiffDict(t1, t2, path, pairing)
           [] t1.t = "list" -> DiffIterable(t1, t2, path, pairing)
           [] t1.t = "NoneType" -> NoDiff
           [] OTHER ->
                IF t1.v = t2.v THEN NoDiff
                ELSE Report("values_changed",
                            [path |-> path, old_value |-> t1, new_value |-> t2])

DeepDiff(t1, t2, pairing) == Diff(t1, t2, Chars("root"), pairing)

\* bool(diff)
DiffTruthy(diff) == \E kind \in DiffKinds : Len(diff[kind]) > 0

(***************************************************************************)
(* Event taxonomy (events.py).  An enum member is its value.               *)
(***************************************************************************)
EventCategory ==
    [SCOPE |-> "Scope", REGULATORY |-> "Regulatory", REGISTRATION |-> "Registration",
     CONTACT |-> "Contact", RESTRICTION |-> "Restriction", TRAINING |-> "Training",
     NEWS |-> "News"]

EventType ==
    [SCOPE_ADDED |-> "scope_added", SCOPE_REMOVED |-> "scope_removed",
     SCOPE_CHANGED |-> "scope_changed",
     REGULATORY_NEW |-> "regulatory_new", REGULATORY_UPDATED |-> "regulatory_updated",
     REGISTRATION_STATUS_CHANGED |-> "registration_status_changed",
     REGISTRATION_EXPIRY_CHANGED |-> "registration_expiry_changed",
     REGISTRATION_MANAGER_CHANGED |-> "registration_manager_changed",
     CONTACT_ADDED |-> "contact_added", CONTACT_REMOVED |-> "contact_removed",
     CONTACT_CHANGED |-> "contact_changed",
     RESTRICTION_ADDED |-> "restriction_added", RESTRICTION_REMOVED |-> "restriction_removed",
     TRAINING_PACKAGE_SUPERSEDED |-> "training_package_superseded",
     TRAINING_PACKAGE_UPDATED |-> "training_package_updated",
     INDUSTRY_NEWS |-> "industry_news"]

EVENT_CATEGORY_MAP ==
    [scope_added |-> EventCategory.SCOPE, scope_removed |-> EventCategory.SCOPE,
     scope_changed |-> EventCategory.SCOPE,
     regulatory_new |-> EventCategory.REGULATORY,
     regulatory_updated |-> EventCategory.REGULATORY,
     registration_status_changed |-> EventCategory.REGISTRATION,
     registration_expiry_changed |-> EventCategory.REGISTRATION,
     registration_manager_changed |-> EventCategory.REGISTRATION,
     contact_added |-> EventCategory.CONTACT, contact_removed |-> EventCategory.CONTACT,
     contact_changed |-> EventCategory.CONTACT,
     restriction_added |-> EventCategory.RESTRICTION,
     restriction_removed |-> EventCategory.RESTRICTION,
     training_package_superseded |-> EventCategory.TRAINING,
     training_package_updated |-> EventCategory.TRAINING,
     industry_news |-> EventCategory.NEWS]

\* Mutant: the table indexed without a default.
get_event_category_no_default(event_type) ==
    IF event_type \in DOMAIN EVENT_CATEGORY_MAP
    THEN EVENT_CATEGORY_MAP[event_type]
    ELSE "KeyError"

get_event_category(event_type) ==
    IF event_type \in DOMAIN EVENT_CATEGORY_MAP
    THEN EVENT_CATEGORY_MAP[event_type]
    ELSE EventCategory.SCOPE

\* Mutant: the anchor of the endpoint left out.
make_source_url_no_anchor(rto_code, endpoint) ==
    <<"https://training.gov.au/organisation/details/", rto_code>>

\* The URL as its pieces of text.
make_source_url(rto_code, endpoint) ==
    LET base == <<"https://training.gov.au/organisation/details/", rto_code>>
    IN  CASE endpoint = "scope" -> base \o <<"#scope">>
          [] endpoint = "regulatory" -> base \o <<"#regulatory">>
          [] endpoint = "registration" -> base \o <<"#registration">>
          [] endpoint = "contacts" -> base \o <<"#contacts">>
          [] endpoint = "restrictions" -> base \o <<"#restrictions">>
          [] OTHER -> base

\* models.py: the fields the detector sets.
TriggerEvent(rto_code, rto_name, event_type, event_category, old_value, new_value, source_url) ==
    [rto_code |-> rto_code, rto_name |-> rto_name, event_type |-> event_type,
     event_category |-> event_category, old_value |-> old_value,
     new_value |-> new_value, source_url |-> source_url]

(***************************************************************************)
(* ChangeDetector (differ.py).  A method either returns a list of events   *)
(* or raises.                                                              *)
(***************************************************************************)
Returned(events) == [exc |-> "", events |-> events]

Raised(exc) == [exc |-> exc, events |-> <<>>]

\* The names bound at module level in differ.py: its imports and its own
\* definitions.
DifferNames ==
    {"json", "logging", "Any", "Dict", "List", "Optional", "DeepDiff", "EventType",
     "get_event_category", "make_source_url", "TriggerEvent", "logger", "ChangeDetector"}

\* The outcome of building the listed events, when the expressions that
\* build each of them read the global names `names`: the first event built
\* raises NameError if one of the names is not bound.
Build(events, names) ==
    IF Len(events) > 0 /\ ~(names \subseteq DifferNames)
    THEN Raised("NameError")
    ELSE Returned(events)

\* Mutant: the restrictions branch lost, so restrictions fall to the default.
handle_new_data_no_restrictions(rto_code, rto_name, endpoint, data) ==
    LET event_type ==
            IF endpoint = "regulatory" THEN EventType.REGULATORY_NEW
            ELSE EventType.SCOPE_ADDED
    IN  Build(<<TriggerEvent(rto_code, rto_name, event_type, get_event_category(event_type),
                             NoText, json_dumps(data),
                             make_source_url(rto_code, endpoint))>>,
              {"TriggerEvent", "get_event_category", "json", "make_source_url"})

handle_new_data(rto_code, rto_name, endpoint, data) ==
    LET event_type ==
            IF endpoint = "regulatory" THEN EventType.REGULATORY_NEW
            ELSE IF endpoint = "restrictions" THEN EventType.RESTRICTION_ADDED
            ELSE EventType.SCOPE_ADDED
    IN  Build(<<TriggerEvent(rto_code, rto_name, event_type, get_event_category(event_type),
                             NoText, json_dumps(data),
                             make_source_url(rto_code, endpoint))>>,
              {"TriggerEvent", "get_event_category", "json", "make_source_url"})

\* Mutant: the types copied from _handle_new_data and left as they were.
handle_removed_data_added_types(rto_code, rto_name, endpoint, data) ==
    LET event_type ==
            IF endpoint = "regulatory" THEN EventType.REGULATORY_NEW
            ELSE IF endpoint = "restrictions" THEN EventType.RESTRICTION_ADDED
            ELSE EventType.SCOPE_ADDED
    IN  Build(<<TriggerEvent(rto_code, rto_name, event_type, get_event_category(event_type),
                             json_dumps(data), NoText,
                             make_source_url(rto_code, endpoint))>>,
              {"TriggerEvent", "get_event_category", "json", "make_source_url"})

\* Mutant: the removed payload passed as new_value.
handle_removed_data_as_new(rto_code, rto_name, endpoint, data) ==
    LET event_type ==
            IF endpoint = "regulatory" THEN EventType.REGULATORY_UPDATED
            ELSE IF endpoint = "restrictions" THEN EventType.RESTRICTION_REMOVED
            ELSE EventType.SCOPE_REMOVED
    IN  Build(<<TriggerEvent(rto_code, rto_name, event_type, get_event_category(event_type),
                             NoText, json_dumps(data),
                             make_source_url(rto_code, endpoint))>>,
              {"TriggerEvent", "get_event_category", "json", "make_source_url"})

\* Mutant: the removed payload not passed at all.
handle_removed_data_no_values(rto_code, rto_name, endpoint, data) ==
    LET event_type ==
            IF endpoint = "regulatory" THEN EventType.REGULATORY_UPDATED
            ELSE IF endpoint = "restrictions" THEN EventType.RESTRICTION_REMOVED
            ELSE EventType.SCOPE_REMOVED
    IN  Build(<<TriggerEvent(rto_code, rto_name, event_type, get_event_category(event_type),
                             NoText, NoText,
                             make_source_url(rto_code, endpoint))>>,
              {"TriggerEvent", "get_event_category", "json", "make_source_url"})

handle_removed_data(rto_code, rto_name, endpoint, data) ==
    LET event_type ==
            IF endpoint = "regulatory" THEN EventType.REGULATORY_UPDATED
            ELSE IF endpoint = "restrictions" THEN EventType.RESTRICTION_REMOVED
            ELSE EventType.SCOPE_REMOVED
    IN  Build(<<TriggerEvent(rto_code, rto_name, event_type, get_event_category(event_type),
                             json_dumps(data), NoText,
                             make_source_url(rto_code, endpoint))>>,
              {"TriggerEvent", "get_event_category", "json", "make_source_url"})

\* The events the three loops of _detect_scope_changes build.
ScopeEvents(rto_code, rto_name, diff) ==
    [n \in DOMAIN diff.iterable_item_added |->
        TriggerEvent(rto_code, rto_name, EventType.SCOPE_ADDED, EventCategory.SCOPE,
                     NoText, json_dumps(diff.iterable_item_added[n].value),
                     make_source_url(rto_code, "scope"))]
    \o [n \in DOMAIN diff.iterable_item_removed |->
        TriggerEvent(rto_code, rto_name, EventType.SCOPE_REMOVED, EventCategory.SCOPE,
                     json_dumps(diff.iterable_item_removed[n].value), NoText,
                     make_source_url(rto_code, "scope"))]
    \o [n \in DOMAIN diff.values_changed |->
        TriggerEvent(rto_code, rto_name, EventType.SCOPE_CHANGED, EventCategory.SCOPE,
                     json_dumps(diff.values_changed[n].old_value),
                     json_dumps(diff.values_changed[n].new_value),
                     make_source_url(rto_code, "scope"))]

detect_scope_changes(rto_code, rto_name, current, baseline, diff) ==
    Build(ScopeEvents(rto_code, rto_name, diff),
          {"TriggerEvent", "EventType", "EventCategory", "json", "make_source_url"})

detect_regulatory_changes(rto_code, rto_name, current, baseline, diff) ==
    Build(<<TriggerEvent(rto_code, rto_name, EventType.REGULATORY_NEW,
                         EventCategory.REGULATORY, json_dumps(baseline),
                         json_dumps(current), make_source_url(rto_code, "regulatory"))>>,
          {"TriggerEvent", "EventType", "EventCategory", "json", "make_source_url"})

\* The subtype _detect_registration_changes picks from the text of the path.
RegistrationEventType(path) ==
    IF Contains(Lower(path), Chars("status")) THEN EventType.REGISTRATION_STATUS_CHANGED
    ELSE IF Contains(Lower(path), Chars("expiry")) \/ Contains(Lower(path), Chars("end"))
    THEN EventType.REGISTRATION_EXPIRY_CHANGED
    ELSE EventType.REGISTRATION_STATUS_CHANGED

RegistrationEvents(rto_code, rto_name, diff) ==
    [n \in DOMAIN diff.values_changed |->
        TriggerEvent(rto_code, rto_name,
                     RegistrationEventType(diff.values_changed[n].path),
                     EventCategory.REGISTRATION,
                     json_dumps(diff.values_changed[n].old_value),
                     json_dumps(diff.values_changed[n].new_value),
                     make_source_url(rto_code, "registration"))]

detect_registration_changes(rto_code, rto_name, current, baseline, diff) ==
    Build(RegistrationEvents(rto_code, rto_name, diff),
          {"TriggerEvent", "EventCategory", "json", "make_source_url"})

\* Mutant: the fallback of contacts and restrictions typed CONTACT_CHANGED.
compare_data_contact_changed(rto_code, rto_name, endpoint, current, baseline, pairing) ==
    LET diff == DeepDiff(baseline, current, pairing)
    IN  IF ~DiffTruthy(diff) THEN Returned(<<>>)
        ELSE IF endpoint = "scope"
        THEN detect_scope_changes(rto_code, rto_name, current, baseline, diff)
        ELSE IF endpoint = "regulatory"
        THEN detect_regulatory_changes(rto_code, rto_name, current, baseline, diff)
        ELSE IF endpoint = "registration"
        THEN detect_registration_changes(rto_code, rto_name, current, baseline, diff)
        ELSE Build(<<TriggerEvent(rto_code, rto_name, EventType.CONTACT_CHANGED,
                                  get_event_category(EventType.CONTACT_CHANGED),
                                  json_dumps(baseline), json_dumps(current),
                                  make_source_url(rto_code, endpoint))>>,
                   {"TriggerEvent", "EventType", "get_event_category", "json",
                    "make_source_url"})

compare_data(rto_code, rto_name, endpoint, current, baseline, pairing) ==
    LET diff == DeepDiff(baseline, current, pairing)
    IN  IF ~DiffTruthy(diff) THEN Returned(<<>>)
        ELSE IF endpoint = "scope"
        THEN detect_scope_changes(rto_code, rto_name, current, baseline, diff)
        ELSE IF endpoint = "regulatory"
        THEN detect_regulatory_changes(rto_code, rto_name, current, baseline, diff)
        ELSE IF endpoint = "registration"
        THEN detect_registration_changes(rto_code, rto_name, current, baseline, diff)
        ELSE Build(<<TriggerEvent(rto_code, rto_name, EventType.SCOPE_CHANGED,
                                  get_event_category(EventType.SCOPE_CHANGED),
                                  json_dumps(baseline), json_dumps(current),
                                  make_source_url(rto_code, endpoint))>>,
                   {"TriggerEvent", "EventType", "get_event_category", "json",
                    "make_source_url"})

detect_endpoint_changes(rto_code, rto_name, endpoint, current, baseline, pairing) ==
    IF baseline = None /\ current # None
    THEN handle_new_data(rto_code, rto_name, endpoint, current)
    ELSE IF baseline # None /\ current = None
    THEN handle_removed_data(rto_code, rto_name, endpoint, baseline)
    ELSE IF baseline # None /\ current # None
    THEN compare_data(rto_code, rto_name, endpoint, current, baseline, pairing)
    ELSE Returned(<<>>)

\* dict.get(key)
Get(d, key) == IF key \in DOMAIN d THEN d[key] ELSE None

Endpoints == <<"scope", "regulatory", "registration", "contacts", "restrictions">>

EndpointSet == Range(Endpoints)

(***************************************************************************)
(* One detect_all_changes call on a detector.                              *)
(*   rto_code, rto_name, current_data, baseline_data : the arguments       *)
(*   pairing        : whether DeepDiff pairs an added with a removed list  *)
(*                    item (it does when it finds them close enough, and   *)
(*                    then reports the changes inside the pair)            *)
(*   pc             : "loop", "returned" or "raised"                       *)
(*   endpoint_index : how many endpoints the for loop has taken            *)
(*   events         : the local list; what the caller gets on return       *)
(*   exc            : the exception that left the call, "" if none         *)
(***************************************************************************)
VARIABLES rto_code, rto_name, current_data, baseline_data, pairing,
          pc, endpoint_index, events, exc

(***************************************************************************)
(* One analyse_rto_events call on an OutreachAnalyser (claude_client.py).  *)
(*   analyser_pc  : "try", "except JSONDecodeError", "except Exception",   *)
(*                  "return", "returned"; "idle" when no call is modelled  *)
(*   given_events : the list of events as it was passed                    *)
(*   rto_events   : the same list object, whose events the call writes     *)
(*   reply        : what messages.create does in this call                 *)
(*   writes       : for each event, how many times the call has assigned   *)
(*                  its three enrichment fields                            *)
(*   analyser_exc : the exception the try block raised, "" if none         *)
(***************************************************************************)
VARIABLES analyser_pc, given_events, rto_events, reply, writes, analyser_exc

(***************************************************************************)
(* The SQLite database (database.py).                                      *)
(*   trigger_events : the rows of table trigger_events; the row at         *)
(*                    position n has id n (AUTOINCREMENT, no row deleted)  *)
(*   baselines      : the rows of table baselines, oldest first            *)
(*   db_call        : the last call made on the Database and its outcome   *)
(***************************************************************************)
VARIABLES trigger_events, baselines, db_call

(***************************************************************************)
(* Phases 3 and 4 of one run_pipeline (main.py).                           *)
(*   run_pc          : "collect" (the loop of phase 2), "analysis",        *)
(*                     "analyse", "digest", "send_digest", "send_sheets",  *)
(*                     "save", "closed", "crashed"; "idle" when no run is  *)
(*                     modelled                                            *)
(*   all_events      : the events phase 2 collected                        *)
(*   groups          : events_by_rto, as the list of its values            *)
(*   enriched_events : the list of that name                               *)
(*   html_digest     : the events the digest shows, in its order; None     *)
(*                     before it is rendered                               *)
(*   posts           : the webhook posts made, and whether each succeeded  *)
(*   webhooks        : config.make_webhook_digest and _sheets: set or not  *)
(*   run_exc         : the exception that ended the run, "" if none        *)
(***************************************************************************)
VARIABLES run_pc, all_events, groups, enriched_events, html_digest, posts, webhooks,
          run_exc

(***************************************************************************)
(* Phase 2 of run_pipeline (main.py), over the runs of a deployment.       *)
(*   cycle          : the number of the run, counted from 1                *)
(*   prospect_index : how many prospect codes the for loop has taken       *)
(*   success_count, error_count : the counters of the loop                 *)
(*   this_cycle     : for each prospect code, what its iteration of this   *)
(*                    run was: the data fetched, the outcome ("none" until *)
(*                    it is taken, then "success" or "error") and the      *)
(*                    events the detector returned                         *)
(*   last_cycle     : the same, for the run before this one                *)
(***************************************************************************)
VARIABLES cycle, prospect_index, success_count, error_count, this_cycle, last_cycle

(***************************************************************************)
(* One TGAClient (tga_client.py) and the tasks get_full_rto_data gathers.  *)
(* Time is counted in ticks, and kept as the ticks that remain or passed.  *)
(*   elapsed   : now - _last_request_time, as far as _throttle can tell:   *)
(*               counted up to rate_limit_seconds                          *)
(*   semaphore : _semaphore: whether it is locked, and the tasks waiting   *)
(*               to acquire it, first come first                           *)
(*   tasks     : for each task its position in _request and _throttle, its *)
(*               attempt, its timer (the ticks its sleep still lasts, or   *)
(*               the ticks its request has been in flight), the waits it   *)
(*               made after an attempt, its result and its exception       *)
(*   requests  : the HTTP requests sent, in order of their start: the task *)
(*               and the ticks since the start of the request before       *)
(*   rto_data  : the dict get_full_rto_data returns, <<>> until it does    *)
(***************************************************************************)
VARIABLES elapsed, semaphore, tasks, requests, rto_data

detectorVars == <<rto_code, rto_name, current_data, baseline_data, pairing,
                  pc, endpoint_index, events, exc>>

analyserVars == <<analyser_pc, given_events, rto_events, reply, writes, analyser_exc>>

storeVars == <<trigger_events, baselines, db_call>>

pipelineVars == <<run_pc, all_events, groups, enriched_events, html_digest, posts,
                  webhooks, run_exc>>

collectionVars == <<cycle, prospect_index, success_count, error_count, this_cycle,
                    last_cycle>>

clientVars == <<elapsed, semaphore, tasks, requests, rto_data>>

vars == <<detectorVars, analyserVars, storeVars, pipelineVars, collectionVars, clientVars>>

\* No call in progress on the component, nothing in its tables.
DetectorIdle ==
    /\ rto_code = "" /\ rto_name = "" /\ current_data = <<>> /\ baseline_data = <<>>
    /\ pairing = FALSE /\ pc = "idle" /\ endpoint_index = 0 /\ events = <<>> /\ exc = ""

AnalyserIdle ==
    /\ analyser_pc = "idle" /\ given_events = <<>> /\ rto_events = <<>>
    /\ reply = [kind |-> "none"] /\ writes = <<>> /\ analyser_exc = ""

NoCall == [op |-> "none", arg |-> <<>>, result |-> <<>>, exc |-> ""]

StoreEmpty == trigger_events = <<>> /\ baselines = <<>> /\ db_call = NoCall

PipelineIdle ==
    /\ run_pc = "idle" /\ all_events = <<>> /\ groups = <<>> /\ enriched_events = <<>>
    /\ html_digest = None /\ posts = <<>> /\ webhooks = <<>> /\ run_exc = ""

CollectionIdle ==
    /\ cycle = 0 /\ prospect_index = 0 /\ success_count = 0 /\ error_count = 0
    /\ this_cycle = <<>> /\ last_cycle = <<>>

ClientIdle ==
    /\ elapsed = 0 /\ semaphore = [locked |-> FALSE, waiters |-> <<>>]
    /\ tasks = <<>> /\ requests = <<>> /\ rto_data = <<>>

Prospects == {[rto_code |-> "0101", name |-> "Alpha Training"],
              [rto_code |-> "0202", name |-> "Beta College"]}

\* What the endpoints other than the one under study hold: nothing, data
\* that appeared, data that changed.
Background ==
    {[baseline |-> None, current |-> None],
     [baseline |-> None, current |-> Dict1("status", PyStr("Active"))],
     [baseline |-> Dict1("status", PyStr("Active")),
      current |-> Dict1("status", PyStr("Suspended"))]}

\* The mappings that hold `other` at every endpoint but `focus`, and there
\* any payload, None, or no key at all.
DataDicts(focus, other) ==
    {[e \in EndpointSet |-> IF e = focus THEN x ELSE other] : x \in Payloads \cup {None}}
    \cup {[e \in EndpointSet \ {focus} |-> other]}

Init ==
    /\ \E p \in Prospects : rto_code = p.rto_code /\ rto_name = p.name
    /\ \E focus \in EndpointSet, bg \in Background :
          /\ current_data \in DataDicts(focus, bg.current)
          /\ baseline_data \in DataDicts(focus, bg.baseline)
    /\ pairing \in BOOLEAN
    /\ pc = "loop"
    /\ endpoint_index = 0
    /\ events = <<>>
    /\ exc = ""
    /\ AnalyserIdle /\ StoreEmpty /\ PipelineIdle /\ CollectionIdle /\ ClientIdle

\* One iteration of the for loop of detect_all_changes.
DetectEndpoint ==
    /\ pc = "loop"
    /\ endpoint_index < Len(Endpoints)
    /\ LET endpoint == Endpoints[endpoint_index + 1]
           current == Get(current_data, endpoint)
           baseline == Get(baseline_data, endpoint)
           r == detect_endpoint_changes(rto_code, rto_name, endpoint, current, baseline,
                                        pairing)
       IN  /\ endpoint_index' = endpoint_index + 1
           /\ IF current = None /\ baseline = None
              THEN UNCHANGED <<pc, events, exc>>
              ELSE IF r.exc # ""
              THEN pc' = "raised" /\ exc' = r.exc /\ events' = <<>>
              ELSE events' = events \o r.events /\ UNCHANGED <<pc, exc>>
    /\ UNCHANGED <<rto_code, rto_name, current_data, baseline_data, pairing>>
    /\ UNCHANGED <<analyserVars, storeVars, pipelineVars, collectionVars, clientVars>>

\* return events
Return ==
    /\ pc = "loop"
    /\ endpoint_index = Len(Endpoints)
    /\ pc' = "returned"
    /\ UNCHANGED <<rto_code, rto_name, current_data, baseline_data, pairing,
                   endpoint_index, events, exc>>
    /\ UNCHANGED <<analyserVars, storeVars, pipelineVars, collectionVars, clientVars>>

Next == DetectEndpoint \/ Return

Spec == Init /\ [][Next]_vars

(***************************************************************************)
(* Vocabulary of the properties.                                           *)
(***************************************************************************)
IndexOf(endpoint) == CHOOSE i \in DOMAIN Endpoints : Endpoints[i] = endpoint

Baseline(endpoint) == Get(baseline_data, endpoint)

Current(endpoint) == Get(current_data, endpoint)

\* The for loop has taken the endpoint.
Taken(endpoint) == endpoint_index >= IndexOf(endpoint)

\* The call ended with an exception raised while it handled the endpoint.
RaisedAt(endpoint) == pc = "raised" /\ endpoint_index = IndexOf(endpoint)

\* The events of the list that are about the endpoint.
EventsFor(endpoint) ==
    SelectSeq(events, LAMBDA ev : ev.source_url = make_source_url(rto_code, endpoint))

\* The structural diff the detector takes of the endpoint's two payloads.
DiffOf(endpoint) == DeepDiff(Baseline(endpoint), Current(endpoint), pairing)

Bijections(n) == {f \in [1..n -> 1..n] : \A i, j \in 1..n : f[i] = f[j] => i = j}

\* Structurally equal up to a permutation of the elements of every list.
RECURSIVE PermEqual(_, _)
PermEqual(a, b) ==
    /\ a.t = b.t
    /\ CASE a.t = "dict" ->
              /\ Range(DictKeys(a)) = Range(DictKeys(b))
              /\ \A k \in Range(DictKeys(a)) : PermEqual(DictGet(a, k), DictGet(b, k))
         [] a.t = "list" ->
              /\ Len(a.v) = Len(b.v)
              /\ \E f \in Bijections(Len(a.v)) :
                    \A i \in DOMAIN a.v : PermEqual(a.v[i], b.v[f[i]])
         [] OTHER -> a.v = b.v

\* C1: detect_all_changes is total: whatever the five endpoints hold in
\* baseline and current, the call does not raise and returns a list.
C1_DetectionIsTotal == pc # "raised" /\ exc = ""

\* C2: an endpoint absent on both sides, or present on both sides with
\* payloads equal up to the order of list elements at any depth, gets no
\* event (and its comparison does not fail).
C2_NoEventWhenEqualUpToOrder ==
    \A e \in EndpointSet :
        (/\ Taken(e)
         /\ \/ Baseline(e) = None /\ Current(e) = None
            \/ /\ Baseline(e) # None
               /\ Current(e) # None
               /\ PermEqual(Baseline(e), Current(e)))
        => EventsFor(e) = <<>> /\ ~RaisedAt(e)

C2_Witness ==
    /\ pc = "returned"
    /\ Baseline("contacts") = Dict1("name", PyList(<<PyStr("Active"), PyStr("Suspended")>>))
    /\ Current("contacts") = Dict1("name", PyList(<<PyStr("Suspended"), PyStr("Active")>>))
    /\ \A e \in EndpointSet \ {"contacts"} : Baseline(e) = None /\ Current(e) = None
    /\ events = <<>>

AppearedType(endpoint) ==
    CASE endpoint = "scope" -> "scope_added"
      [] endpoint = "regulatory" -> "regulatory_new"
      [] endpoint = "restrictions" -> "restriction_added"
      [] endpoint \in {"registration", "contacts"} -> "scope_added"

DisappearedType(endpoint) ==
    CASE endpoint = "scope" -> "scope_removed"
      [] endpoint = "regulatory" -> "regulatory_updated"
      [] endpoint = "restrictions" -> "restriction_removed"
      [] endpoint \in {"registration", "contacts"} -> "scope_removed"

\* C3: an endpoint with no baseline and a current payload gets exactly one
\* event: old_value None, new_value the whole current payload serialized,
\* type SCOPE_ADDED for scope, REGULATORY_NEW for regulatory,
\* RESTRICTION_ADDED for restrictions, SCOPE_ADDED for registration and
\* contacts.
C3_AppearedEvent ==
    \A e \in EndpointSet :
        (Taken(e) /\ Baseline(e) = None /\ Current(e) # None)
        => /\ ~RaisedAt(e)
           /\ pc # "raised" =>
                 /\ Len(EventsFor(e)) = 1
                 /\ EventsFor(e)[1].event_type = AppearedType(e)
                 /\ EventsFor(e)[1].old_value = NoText
                 /\ EventsFor(e)[1].new_value = json_dumps(Current(e))

C3_Witness ==
    /\ pc = "returned"
    /\ \A e \in EndpointSet : Baseline(e) = None
    /\ Current("restrictions") = PyList(<<Dict1("code", PyStr("Active"))>>)
    /\ Current("registration") = Dict1("status", PyStr("Active"))
    /\ Len(events) = 5
    /\ events[5].event_type = "restriction_added"
    /\ events[3].event_type = "scope_added"

\* C4: an endpoint with a baseline and no current payload gets exactly one
\* event: new_value None, old_value the whole baseline payload serialized,
\* type SCOPE_REMOVED for scope, REGULATORY_UPDATED for regulatory,
\* RESTRICTION_REMOVED for restrictions, SCOPE_REMOVED for registration and
\* contacts.
C4_DisappearedEvent ==
    \A e \in EndpointSet :
        (Taken(e) /\ Baseline(e) # None /\ Current(e) = None)
        => /\ ~RaisedAt(e)
           /\ pc # "raised" =>
                 /\ Len(EventsFor(e)) = 1
                 /\ EventsFor(e)[1].event_type = DisappearedType(e)
                 /\ EventsFor(e)[1].new_value = NoText
                 /\ EventsFor(e)[1].old_value = json_dumps(Baseline(e))

C4_Witness ==
    /\ pc = "returned"
    /\ Baseline("regulatory") = Dict1("status", PyStr("Active"))
    /\ "regulatory" \notin DOMAIN current_data
    /\ Len(events) = 1
    /\ events[1].event_type = "regulatory_updated"
    /\ events[1].new_value = NoText

\* The removed member of each family of appearance events.
Mirrored ==
    [scope_added |-> "scope_removed", regulatory_new |-> "regulatory_updated",
     restriction_added |-> "restriction_removed"]

\* The one event of detect(baseline = absent, current = x) for the endpoint.
AppearanceOf(endpoint, x) ==
    detect_endpoint_changes(rto_code, rto_name, endpoint, x, None, pairing).events

\* The one event of detect(baseline = x, current = absent) for the endpoint.
DisappearanceOf(endpoint, x) ==
    detect_endpoint_changes(rto_code, rto_name, endpoint, None, x, pairing).events

\* C5: for an endpoint and a payload X, the event of detect(absent, X) and
\* the event of detect(X, absent) are one each, of mirrored types of one
\* family (added, removed), and X is new_value of the first and old_value
\* of the second.
C5_AppearanceDisappearanceSymmetry ==
    \A e \in EndpointSet :
        /\ (Taken(e) /\ pc # "raised" /\ Baseline(e) # None /\ Current(e) = None)
           => /\ Len(EventsFor(e)) = 1
              /\ Len(AppearanceOf(e, Baseline(e))) = 1
              /\ AppearanceOf(e, Baseline(e))[1].event_type \in DOMAIN Mirrored
              /\ EventsFor(e)[1].event_type
                    = Mirrored[AppearanceOf(e, Baseline(e))[1].event_type]
              /\ EventsFor(e)[1].event_category
                    = AppearanceOf(e, Baseline(e))[1].event_category
              /\ EventsFor(e)[1].old_value = AppearanceOf(e, Baseline(e))[1].new_value
              /\ EventsFor(e)[1].old_value = json_dumps(Baseline(e))
              /\ EventsFor(e)[1].new_value = NoText
        /\ (Taken(e) /\ pc # "raised" /\ Baseline(e) = None /\ Current(e) # None)
           => /\ Len(EventsFor(e)) = 1
              /\ Len(DisappearanceOf(e, Current(e))) = 1
              /\ EventsFor(e)[1].event_type \in DOMAIN Mirrored
              /\ DisappearanceOf(e, Current(e))[1].event_type
                    = Mirrored[EventsFor(e)[1].event_type]
              /\ EventsFor(e)[1].new_value = DisappearanceOf(e, Current(e))[1].old_value
              /\ EventsFor(e)[1].old_value = NoText

C5_Witness ==
    /\ pc = "returned"
    /\ Baseline("restrictions") = PyList(<<PyStr("Active")>>)
    /\ Current("restrictions") = None
    /\ Baseline("scope") = None
    /\ Current("scope") = Dict1("status", PyStr("Active"))
    /\ Len(EventsFor("restrictions")) = 1
    /\ EventsFor("restrictions")[1].event_type = "restriction_removed"
    /\ EventsFor("scope")[1].event_type = "scope_added"
BothPresent(endpoint) == Baseline(endpoint) # None /\ Current(endpoint) # None

\* C7: for scope with both payloads present there is exactly one event per
\* delta: SCOPE_ADDED (old None, new the item) per item added, SCOPE_REMOVED
\* (old the item, new None) per item removed, SCOPE_CHANGED (old and new the
\* changed values) per scalar change; baseline [{code: A}] and current
\* [{code: A}, {code: B}] give exactly one SCOPE_ADDED with new_value
\* {code: B}.
C7_ScopeOneEventPerDelta ==
    (Taken("scope") /\ BothPresent("scope"))
    => /\ ~RaisedAt("scope")
       /\ pc # "raised" =>
             LET d == DiffOf("scope")
                 evs == EventsFor("scope")
                 Has(type, old, new) ==
                     \E n \in DOMAIN evs : /\ evs[n].event_type = type
                                           /\ evs[n].old_value = old
                                           /\ evs[n].new_value = new
             IN  /\ Len(evs) = Len(d.iterable_item_added) + Len(d.iterable_item_removed)
                               + Len(d.values_changed)
                 /\ \A n \in DOMAIN d.iterable_item_added :
                       Has("scope_added", NoText, json_dumps(d.iterable_item_added[n].value))
                 /\ \A n \in DOMAIN d.iterable_item_removed :
                       Has("scope_removed", json_dumps(d.iterable_item_removed[n].value), NoText)
                 /\ \A n \in DOMAIN d.values_changed :
                       Has("scope_changed", json_dumps(d.values_changed[n].old_value),
                           json_dumps(d.values_changed[n].new_value))
                 /\ (/\ Baseline("scope") = PyList(<<Dict1("code", PyStr("Active"))>>)
                     /\ Current("scope") = PyList(<<Dict1("code", PyStr("Active")),
                                                    Dict1("code", PyStr("Suspended"))>>))
                    => /\ Len(evs) = 1
                       /\ evs[1].event_type = "scope_added"
                       /\ evs[1].new_value = json_dumps(Dict1("code", PyStr("Suspended")))

\* C8: for regulatory with both payloads present, a diff that is not empty,
\* whatever its deltas, gives exactly one REGULATORY_NEW event with
\* old_value the whole baseline and new_value the whole current payload.
C8_RegulatoryOneWholePayloadEvent ==
    (Taken("regulatory") /\ BothPresent("regulatory") /\ DiffTruthy(DiffOf("regulatory")))
    => /\ ~RaisedAt("regulatory")
       /\ pc # "raised" =>
             /\ Len(EventsFor("regulatory")) = 1
             /\ EventsFor("regulatory")[1].event_type = "regulatory_new"
             /\ EventsFor("regulatory")[1].old_value = json_dumps(Baseline("regulatory"))
             /\ EventsFor("regulatory")[1].new_value = json_dumps(Current("regulatory"))

\* An object none of whose fields holds a list: its diff has no list items
\* to pair, and is the same whatever DeepDiff's pairing does.
ObjectOfScalars(p) == p.t = "dict" /\ \A i \in DOMAIN p.v : p.v[i].x.t # "list"

\* C9: for registration with both payloads present, the events are as many
\* as the scalar-changed deltas of the diff; a diff of added or removed
\* items and keys only gives none.  Stated for payloads that are objects
\* without lists.
C9_RegistrationEventsAreScalarChanges ==
    (/\ Taken("registration")
     /\ ObjectOfScalars(Baseline("registration"))
     /\ ObjectOfScalars(Current("registration")))
    => /\ ~RaisedAt("registration")
       /\ pc # "raised" =>
             Len(EventsFor("registration")) = Len(DiffOf("registration").values_changed)

\* The subtype by the text of the path: "status" first, then "expiry" or
\* "end", else the status type.
SubtypeByPath(path) ==
    CASE Contains(Lower(path), Chars("status")) -> "registration_status_changed"
      [] /\ ~Contains(Lower(path), Chars("status"))
         /\ (Contains(Lower(path), Chars("expiry")) \/ Contains(Lower(path), Chars("end")))
            -> "registration_expiry_changed"
      [] OTHER -> "registration_status_changed"

\* C10: each scalar-changed delta of registration gives an event whose type
\* follows the path text (status, else expiry or end, else status) and whose
\* old and new values are the changed scalars; {status: Active} to
\* {status: Suspended} gives one REGISTRATION_STATUS_CHANGED, old Active,
\* new Suspended.  Stated for payloads that are objects without lists.
C10_RegistrationSubtypeByPath ==
    (/\ Taken("registration")
     /\ ObjectOfScalars(Baseline("registration"))
     /\ ObjectOfScalars(Current("registration"))
     /\ Len(DiffOf("registration").values_changed) > 0)
    => /\ ~RaisedAt("registration")
       /\ pc # "raised" =>
             LET changed == DiffOf("registration").values_changed
                 evs == EventsFor("registration")
             IN  /\ Len(evs) = Len(changed)
                 /\ \A n \in DOMAIN changed :
                       /\ evs[n].event_type = SubtypeByPath(changed[n].path)
                       /\ evs[n].old_value = json_dumps(changed[n].old_value)
                       /\ evs[n].new_value = json_dumps(changed[n].new_value)

\* The deltas of a diff, of every kind.
DeltaCount(diff) ==
    Len(diff.type_changes) + Len(diff.values_changed)
    + Len(diff.dictionary_item_added) + Len(diff.dictionary_item_removed)
    + Len(diff.iterable_item_added) + Len(diff.iterable_item_removed)

\* C11: for contacts and for restrictions with both payloads present and a
\* diff that is not empty, whatever the number of its deltas, detection
\* gives exactly one event: type SCOPE_CHANGED, category Scope, old_value
\* the whole baseline payload and new_value the whole current payload.
C11_GenericOneCoarseEvent ==
    \A e \in {"contacts", "restrictions"} :
        (Taken(e) /\ BothPresent(e) /\ DiffTruthy(DiffOf(e)))
        => /\ ~RaisedAt(e)
           /\ pc # "raised" =>
                 /\ Len(EventsFor(e)) = 1
                 /\ EventsFor(e)[1].event_type = "scope_changed"
                 /\ EventsFor(e)[1].event_category = "Scope"
                 /\ EventsFor(e)[1].old_value = json_dumps(Baseline(e))
                 /\ EventsFor(e)[1].new_value = json_dumps(Current(e))

C11_Witness ==
    /\ pc = "returned"
    /\ BothPresent("contacts")
    /\ DeltaCount(DiffOf("contacts")) >= 2
    /\ Len(EventsFor("contacts")) = 1
    /\ EventsFor("contacts")[1].event_type = "scope_changed"
    /\ EventsFor("contacts")[1].old_value = json_dumps(Baseline("contacts"))

\* Object, array or scalar.
Shape(p) == IF p.t = "dict" THEN "object" ELSE IF p.t = "list" THEN "array" ELSE "scalar"

\* C12: for scope with both payloads present and of different shape (an
\* object against an array, a scalar against a container) the comparison
\* does not fail, the diff is a single delta at the root, and detection
\* gives exactly one SCOPE_CHANGED event with old_value the whole baseline
\* and new_value the whole current payload.
C12_ShapeMismatchOneScopeChanged ==
    (/\ Taken("scope")
     /\ BothPresent("scope")
     /\ Shape(Baseline("scope")) # Shape(Current("scope")))
    => /\ ~RaisedAt("scope")
       /\ DeltaCount(DiffOf("scope")) = 1
       /\ pc # "raised" =>
             /\ Len(EventsFor("scope")) = 1
             /\ EventsFor("scope")[1].event_type = "scope_changed"
             /\ EventsFor("scope")[1].old_value = json_dumps(Baseline("scope"))
             /\ EventsFor("scope")[1].new_value = json_dumps(Current("scope"))

\* The members of the two enums, and type names that are no member.
Categories == {EventCategory[m] : m \in DOMAIN EventCategory}

EventTypes == {EventType[m] : m \in DOMAIN EventType}

UndefinedTypes == {"scope_renamed", "unknown", ""}

\* C13: the category lookup is total: get_event_category gives every one
\* of the 16 event types one of the 7 categories (Scope, Regulatory,
\* Registration, Contact, Restriction, Training, News), gives Scope to a
\* type the table does not hold, and every event built through it carries
\* the category of its type.
C13_CategoryLookupTotal ==
    /\ Categories = {"Scope", "Regulatory", "Registration", "Contact", "Restriction",
                     "Training", "News"}
    /\ Cardinality(EventTypes) = 16
    /\ \A t \in EventTypes : get_event_category(t) \in Categories
    /\ \A t \in UndefinedTypes :
          t \notin EventTypes /\ get_event_category(t) = "Scope"
    /\ \A n \in DOMAIN events :
          /\ events[n].event_type \in EventTypes
          /\ events[n].event_category = get_event_category(events[n].event_type)
          /\ events[n].event_category \in Categories

C13_Witness ==
    /\ pc = "returned"
    /\ \E n \in DOMAIN events : /\ events[n].event_type = "restriction_removed"
                                 /\ events[n].event_category = "Restriction"
    /\ \E n \in DOMAIN events : /\ events[n].event_type = "regulatory_new"
                                 /\ events[n].event_category = "Regulatory"
    /\ \E n \in DOMAIN events : events[n].event_category = "Scope"

\* The page of an RTO, and the anchors of the five endpoints on it.
RootUrl(code) == <<"https://training.gov.au/organisation/details/", code>>

Anchor ==
    [scope |-> "#scope", regulatory |-> "#regulatory", registration |-> "#registration",
     contacts |-> "#contacts", restrictions |-> "#restrictions"]

OtherResources == {"organisation", "news", ""}

\* C14: every event a loop iteration adds for endpoint r of RTO e carries
\* the URL of e's page followed by "#r"; for a resource name that is none
\* of the five endpoints make_source_url gives the bare page URL; the URL
\* is a function of (e, r) alone.
C14_SourceUrlByResource ==
    [][/\ \A n \in (Len(events) + 1)..Len(events') :
             events'[n].source_url
                = RootUrl(rto_code) \o <<Anchor[Endpoints[endpoint_index + 1]]>>
       /\ \A r \in EndpointSet :
             make_source_url(rto_code, r) = RootUrl(rto_code) \o <<Anchor[r]>>
       /\ \A r \in OtherResources : make_source_url(rto_code, r) = RootUrl(rto_code)]_vars

C14_Witness ==
    /\ pc = "returned"
    /\ rto_code = "0202"
    /\ Len(events) = 5
    /\ events[1].source_url = <<"https://training.gov.au/organisation/details/", "0202",
                                "#scope">>
    /\ events[4].source_url = <<"https://training.gov.au/organisation/details/", "0202",
                                "#contacts">>
    /\ events[4].event_type = "scope_changed"

HasAValue(ev) == ev.old_value # NoText \/ ev.new_value # NoText

\* C15: every event of the detector has old_value or new_value (or both)
\* not None: the events of the list (appeared, disappeared, generic diff)
\* and the events the scope, regulatory and registration handlers build
\* from a diff.
C15_EventCarriesAValue ==
    /\ \A n \in DOMAIN events : HasAValue(events[n])
    /\ (Taken("scope") /\ BothPresent("scope"))
       => \A ev \in Range(ScopeEvents(rto_code, rto_name, DiffOf("scope"))) : HasAValue(ev)
    /\ (Taken("registration") /\ BothPresent("registration"))
       => \A ev \in Range(RegistrationEvents(rto_code, rto_name, DiffOf("registration"))) :
             HasAValue(ev)
    /\ (Taken("regulatory") /\ BothPresent("regulatory"))
       => /\ json_dumps(Baseline("regulatory")) # NoText
          /\ json_dumps(Current("regulatory")) # NoText

C15_Witness ==
    /\ pc = "returned"
    /\ \E n \in DOMAIN events : /\ events[n].event_type = "restriction_removed"
                                 /\ events[n].new_value = NoText
                                 /\ events[n].old_value # NoText
    /\ \E n \in DOMAIN events : /\ events[n].event_type = "scope_added"
                                 /\ events[n].old_value = NoText
                                 /\ events[n].new_value # NoText

(***************************************************************************)
(* JSON text read back: json.loads, and json.dumps(sort_keys=True).        *)
(***************************************************************************)
\* Code point order of the letters: upper case before lower case.
CharRank(c) ==
    LET alphabet == UpperCase \o LowerCase
    IN  CHOOSE n \in DOMAIN alphabet : alphabet[n] = c

\* a < b for two strings given by their characters.
RECURSIVE TextLess(_, _)
TextLess(a, b) ==
    IF Len(b) = 0 THEN FALSE
    ELSE IF Len(a) = 0 THEN TRUE
    ELSE IF a[1] # b[1] THEN CharRank(a[1]) < CharRank(b[1])
    ELSE TextLess(Tail(a), Tail(b))

\* sorted(entries) by key.
RECURSIVE SortEntries(_)
SortEntries(entries) ==
    IF Len(entries) = 0 THEN <<>>
    ELSE LET first == CHOOSE i \in DOMAIN entries :
                         \A j \in DOMAIN entries :
                            j # i => ~TextLess(Chars(entries[j].k), Chars(entries[i].k))
         IN  <<entries[first]>>
             \o SortEntries(SelectSeq(entries, LAMBDA e : e.k # entries[first].k))

\* The value with the keys of every dict in it in sorted order.
RECURSIVE SortKeys(_)
SortKeys(value) ==
    CASE value.t = "dict" ->
            PyDict(LET sorted == SortEntries(value.v)
                   IN  [i \in DOMAIN sorted |-> Entry(sorted[i].k, SortKeys(sorted[i].x))])
      [] value.t = "list" -> PyList([i \in DOMAIN value.v |-> SortKeys(value.v[i])])
      [] OTHER -> value

\* json.dumps(value, sort_keys=True)
json_dumps_sort_keys(value) == json_dumps(SortKeys(value))

\* The token at a position of a text, "" past its end.
Tok(text, i) == IF i \in DOMAIN text THEN text[i] ELSE ""

IntTokens == {ToString(n) : n \in 0..9}

\* d[k] = x on the entries of a dict: a key already there keeps its place.
DictSet(entries, k, x) ==
    IF \E i \in DOMAIN entries : entries[i].k = k
    THEN [i \in DOMAIN entries |-> IF entries[i].k = k THEN Entry(k, x) ELSE entries[i]]
    ELSE Append(entries, Entry(k, x))

\* A parse: whether it succeeded, the value read, the position after it.
Parsed(value, next) == [ok |-> TRUE, v |-> value, next |-> next]

ParseError == [ok |-> FALSE, v |-> None, next |-> 0]

RECURSIVE ParseValue(_, _)
RECURSIVE ParseItems(_, _, _)
RECURSIVE ParseEntries(_, _, _)

\* The items of an array from position i on, after the items in acc.
ParseItems(text, i, acc) ==
    LET item == ParseValue(text, i)
    IN  IF ~item.ok THEN ParseError
        ELSE IF Tok(text, item.next) = ", "
        THEN ParseItems(text, item.next + 1, Append(acc, item.v))
        ELSE IF Tok(text, item.next) = "]"
        THEN Parsed(PyList(Append(acc, item.v)), item.next + 1)
        ELSE ParseError

\* The entries of an object from position i on, after the entries in acc.
ParseEntries(text, i, acc) ==
    IF ~(Tok(text, i) = "\"" /\ Tok(text, i + 2) = "\"" /\ Tok(text, i + 3) = ": ")
    THEN ParseError
    ELSE LET x == ParseValue(text, i + 4)
         IN  IF ~x.ok THEN ParseError
             ELSE IF Tok(text, x.next) = ", "
             THEN ParseEntries(text, x.next + 1, DictSet(acc, text[i + 1], x.v))
             ELSE IF Tok(text, x.next) = "}"
             THEN Parsed(PyDict(DictSet(acc, text[i + 1], x.v)), x.next + 1)
             ELSE ParseError

ParseValue(text, i) ==
    LET t == Tok(text, i)
    IN  CASE t = "null" -> Parsed(None, i + 1)
          [] t = "\"" ->
                IF Tok(text, i + 2) = "\"" /\ i + 1 \in DOMAIN text
                THEN Parsed(PyStr(text[i + 1]), i + 3)
                ELSE ParseError
          [] t \in IntTokens ->
                Parsed(PyInt(CHOOSE n \in 0..9 : ToString(n) = t), i + 1)
          [] t = "[" ->
                IF Tok(text, i + 1) = "]" THEN Parsed(PyList(<<>>), i + 2)
                ELSE ParseItems(text, i + 1, <<>>)
          [] t = "{" ->
                IF Tok(text, i + 1) = "}" THEN Parsed(PyDict(<<>>), i + 2)
                ELSE ParseEntries(text, i + 1, <<>>)
          [] OTHER -> ParseError

\* json.loads(text): the value, or JSONDecodeError when the text is not one
\* JSON document.  Line ends between tokens are white space.
json_loads(text) ==
    LET tokens == SelectSeq(text, LAMBDA t : t # "\n")
        doc == ParseValue(tokens, 1)
    IN  IF doc.ok /\ doc.next = Len(tokens) + 1
        THEN [exc |-> "", v |-> doc.v]
        ELSE [exc |-> "JSONDecodeError", v |-> None]

(***************************************************************************)
(* TriggerEvent objects after the detector (models.py), and the replies of *)
(* the model to an analysis prompt.                                        *)
(***************************************************************************)
\* Longest list of events one analyse_rto_events call gets, and longest
\* list of entries a reply holds.
MaxEvents == 2

\* The defaults of the dataclass fields the detector does not pass.  The
\* None of detected_at and of id is 0: ids and times start at 1.
EventDefaults ==
    [detected_at |-> 0, outreach_score |-> None, suggested_opening |-> None,
     business_implication |-> None, delivery_status |-> "pending",
     outreach_status |-> "New", id |-> 0]

\* The object a TriggerEvent(...) call of the detector constructs.
NewEvent(ev) == ev @@ EventDefaults

\* Events the detector returns for a prospect: scope data that appeared,
\* restrictions that disappeared, contacts that changed.
DetectedEvents(p) ==
    {NewEvent(handle_new_data(p.rto_code, p.name, "scope",
                              PyList(<<Dict1("code", PyStr("Active"))>>)).events[1]),
     NewEvent(handle_removed_data(p.rto_code, p.name, "restrictions",
                                  PyList(<<PyStr("Active")>>)).events[1]),
     NewEvent(compare_data(p.rto_code, p.name, "contacts",
                           Dict1("name", PyStr("Suspended")),
                           Dict1("name", PyStr("Active")), FALSE).events[1])}

AlphaTraining == [rto_code |-> "0101", name |-> "Alpha Training"]

BetaCollege == [rto_code |-> "0202", name |-> "Beta College"]

\* The entries a reply may hold for an event: all fields, the score alone,
\* a null score, and text where an object is asked for.
FullEntry ==
    PyDict(<<Entry("event_number", PyInt(1)), Entry("outreach_score", PyStr("High")),
             Entry("suggested_opening", PyStr("Congratulations on the new scope")),
             Entry("business_implication", PyStr("New compliance documents"))>>)

ScoreOnlyEntry == Dict1("outreach_score", PyStr("Medium"))

NullScoreEntry ==
    Dict2("outreach_score", None, "suggested_opening", PyStr("Congratulations"))

ReplyEntries == {FullEntry, ScoreOnlyEntry, NullScoreEntry, PyStr("High")}

\* The JSON documents of a reply: an object with a list "events", and
\* documents of another form.
AnalysisDocs ==
    {Dict1("events", PyList(es)) : es \in SeqsUpTo(ReplyEntries, MaxEvents)}
    \cup {Dict1("analysis", PyList(<<>>)), PyList(<<FullEntry>>),
          Dict1("events", PyStr("none"))}

\* A line of three backquotes, bare and followed by "json".
FenceClose == "<three backquotes>"

FenceOpen == "<three backquotes>json"

\* The texts the model may write around a document: the document alone, in
\* a code fence, after an opening fence that is never closed, after a
\* sentence.
ReplyTexts(doc) ==
    {json_dumps(doc),
     <<FenceOpen, "\n">> \o json_dumps(doc) \o <<"\n", FenceClose>>,
     <<FenceOpen, "\n">> \o json_dumps(doc),
     <<"Here is the analysis:", "\n">> \o json_dumps(doc)}

\* What messages.create does: it raises, or returns a response with no
\* content block or with one block of text.
Replies ==
    {[kind |-> "raises", exc |-> "APIConnectionError", content |-> <<>>],
     [kind |-> "response", exc |-> "", content |-> <<>>]}
    \cup {[kind |-> "response", exc |-> "", content |-> <<text>>] :
             text \in UNION {ReplyTexts(doc) : doc \in AnalysisDocs}}

(***************************************************************************)
(* OutreachAnalyser.analyse_rto_events (claude_client.py).                 *)
(***************************************************************************)
\* text.split("\n")
RECURSIVE SplitLines(_)
SplitLines(text) ==
    IF \A i \in DOMAIN text : text[i] # "\n" THEN <<text>>
    ELSE LET cut == CHOOSE i \in DOMAIN text :
                       text[i] = "\n" /\ \A j \in 1..(i - 1) : text[j] # "\n"
         IN  <<SubSeq(text, 1, cut - 1)>> \o SplitLines(SubSeq(text, cut + 1, Len(text)))

\* "\n".join(lines)
RECURSIVE JoinLines(_)
JoinLines(lines) ==
    IF Len(lines) = 0 THEN <<>>
    ELSE IF Len(lines) = 1 THEN lines[1]
    ELSE lines[1] \o <<"\n">> \o JoinLines(Tail(lines))

\* Lines 74-77: a text that starts with a fence loses its first and its
\* last line.
StripFences(text) ==
    IF Tok(text, 1) \in {FenceOpen, FenceClose}
    THEN LET lines == SplitLines(text)
         IN  JoinLines(SubSeq(lines, 2, Len(lines) - 1))
    ELSE text

\* d.get(k, default)
GetOr(d, k, default) == IF k \in Range(DictKeys(d)) THEN DictGet(d, k) ELSE default

\* Lines 85-89: the three assignments to one event.
Enrich(event, event_analysis) ==
    [event EXCEPT
        !.outreach_score = GetOr(event_analysis, "outreach_score", PyStr("Low")),
        !.suggested_opening = GetOr(event_analysis, "suggested_opening", PyStr("")),
        !.business_implication = GetOr(event_analysis, "business_implication", PyStr(""))]

\* The outcome of a stretch of the try block: the events as they are now,
\* how many of them (the first `done`) it has written, and the exception
\* that ended it, "" if none.
Tried(evs, done, e) == [events |-> evs, done |-> done, exc |-> e]

\* Lines 83-89: the loop.  analysis["events"][i] raises when analysis is no
\* dict, has no key "events", or holds there no list or a list too short;
\* event_analysis.get raises when the entry is no dict.
EnrichLoop(evs, analysis) ==
    IF analysis.t # "dict" THEN Tried(evs, 0, "TypeError")
    ELSE IF "events" \notin Range(DictKeys(analysis)) THEN Tried(evs, 0, "KeyError")
    ELSE LET entries == DictGet(analysis, "events")
         IN  IF entries.t = "dict" THEN Tried(evs, 0, "KeyError")
             ELSE IF entries.t = "str" THEN Tried(evs, 0, "AttributeError")
             ELSE IF entries.t # "list" THEN Tried(evs, 0, "TypeError")
             ELSE LET bad == {i \in DOMAIN evs :
                                 i \notin DOMAIN entries.v \/ entries.v[i].t # "dict"}
                      stop == IF bad = {} THEN Len(evs) + 1
                              ELSE CHOOSE i \in bad : \A j \in bad : i <= j
                  IN  Tried([i \in DOMAIN evs |->
                                IF i < stop THEN Enrich(evs[i], entries.v[i])
                                ELSE evs[i]],
                            stop - 1,
                            IF bad = {} THEN ""
                            ELSE IF stop \notin DOMAIN entries.v THEN "IndexError"
                            ELSE "AttributeError")

\* Lines 62-93: the try block, to its end or to the exception it raises.
TryBlock(evs, r) ==
    IF r.kind = "raises" THEN Tried(evs, 0, r.exc)
    ELSE IF Len(r.content) = 0 THEN Tried(evs, 0, "IndexError")
    ELSE LET analysis == json_loads(StripFences(r.content[1]))
         IN  IF analysis.exc # "" THEN Tried(evs, 0, analysis.exc)
             ELSE EnrichLoop(evs, analysis.v)

\* Lines 101-104.
except_JSONDecodeError(evs) ==
    [i \in DOMAIN evs |->
        [evs[i] EXCEPT !.outreach_score = PyStr("Low"),
                          !.suggested_opening = PyStr("Unable to analyze"),
                          !.business_implication = PyStr("Analysis failed")]]

\* Lines 109-112; str(e) is the name of the exception.
except_Exception(evs, e) ==
    [i \in DOMAIN evs |->
        [evs[i] EXCEPT !.outreach_score = PyStr("Low"),
                          !.suggested_opening = PyStr("Error during analysis"),
                          !.business_implication = PyStr(e)]]

\* The whole call: the list it returns.
analyse_rto_events(evs, r) ==
    IF Len(evs) = 0 THEN evs
    ELSE LET t == TryBlock(evs, r)
         IN  IF t.exc = "" THEN t.events
             ELSE IF t.exc = "JSONDecodeError" THEN except_JSONDecodeError(t.events)
             ELSE except_Exception(t.events, t.exc)

AnalyserInit ==
    /\ analyser_pc = "try"
    /\ given_events \in SeqsUpTo(DetectedEvents(AlphaTraining), MaxEvents)
    /\ rto_events = given_events
    /\ reply \in Replies
    /\ writes = [i \in DOMAIN given_events |-> 0]
    /\ analyser_exc = ""
    /\ DetectorIdle /\ StoreEmpty /\ PipelineIdle /\ CollectionIdle /\ ClientIdle

\* Lines 40-93: the early return for no events, else the try block.
AnalyserTry ==
    /\ analyser_pc = "try"
    /\ IF Len(rto_events) = 0
       THEN /\ analyser_pc' = "returned"
            /\ UNCHANGED <<rto_events, writes, analyser_exc>>
       ELSE LET t == TryBlock(rto_events, reply)
            IN  /\ rto_events' = t.events
                /\ writes' = [i \in DOMAIN writes |->
                                 IF i <= t.done THEN writes[i] + 1 ELSE writes[i]]
                /\ analyser_exc' = t.exc
                /\ analyser_pc' = IF t.exc = "" THEN "return"
                                  ELSE IF t.exc = "JSONDecodeError"
                                  THEN "except JSONDecodeError"
                                  ELSE "except Exception"
    /\ UNCHANGED <<given_events, reply>>
    /\ UNCHANGED <<detectorVars, storeVars, pipelineVars, collectionVars, clientVars>>

\* Lines 95-104.
AnalyserExceptJSONDecodeError ==
    /\ analyser_pc = "except JSONDecodeError"
    /\ rto_events' = except_JSONDecodeError(rto_events)
    /\ writes' = [i \in DOMAIN writes |-> writes[i] + 1]
    /\ analyser_pc' = "return"
    /\ UNCHANGED <<given_events, reply, analyser_exc>>
    /\ UNCHANGED <<detectorVars, storeVars, pipelineVars, collectionVars, clientVars>>

\* Lines 106-112.
AnalyserExceptException ==
    /\ analyser_pc = "except Exception"
    /\ rto_events' = except_Exception(rto_events, analyser_exc)
    /\ writes' = [i \in DOMAIN writes |-> writes[i] + 1]
    /\ analyser_pc' = "return"
    /\ UNCHANGED <<given_events, reply, analyser_exc>>
    /\ UNCHANGED <<detectorVars, storeVars, pipelineVars, collectionVars, clientVars>>

\* Line 114.
AnalyserReturn ==
    /\ analyser_pc = "return"
    /\ analyser_pc' = "returned"
    /\ UNCHANGED <<given_events, rto_events, reply, writes, analyser_exc>>
    /\ UNCHANGED <<detectorVars, storeVars, pipelineVars, collectionVars, clientVars>>

AnalyserNext ==
    \/ AnalyserTry
    \/ AnalyserExceptJSONDecodeError
    \/ AnalyserExceptException
    \/ AnalyserReturn

AnalyserSpec == AnalyserInit /\ [][AnalyserNext]_vars

\* The steps of a call end with the list the whole call returns.
StepsAreTheCall ==
    analyser_pc = "returned" => rto_events = analyse_rto_events(given_events, reply)

\* C16: within one analyse_rto_events call the enrichment fields of an
\* event (outreach_score, suggested_opening, business_implication) are
\* written exactly once: never a second time, on any path, and once when
\* the call has returned a list that is not empty.
C16_EnrichedExactlyOnce ==
    \A i \in DOMAIN writes :
        /\ writes[i] <= 1
        /\ analyser_pc = "returned" => writes[i] = 1

\* The fields the detector sets.
CoreFields ==
    {"rto_code", "rto_name", "event_type", "event_category", "old_value", "new_value",
     "source_url"}

Core(ev) == [f \in CoreFields |-> ev[f]]

\* Not None.
Populated(x) == x.t # "NoneType"

\* C19: analyse_rto_events returns the events it was given, as many and in
\* the same order, with the core fields (rto_code, rto_name, event_type,
\* event_category, old_value, new_value, source_url) as they were and the
\* three enrichment fields populated on every event, whether the model call
\* succeeds, returns text that does not parse, or raises.
C19_SameEventsEnriched ==
    analyser_pc = "returned"
    => /\ Len(rto_events) = Len(given_events)
       /\ \A i \in DOMAIN rto_events :
             /\ Core(rto_events[i]) = Core(given_events[i])
             /\ Populated(rto_events[i].outreach_score)
             /\ Populated(rto_events[i].suggested_opening)
             /\ Populated(rto_events[i].business_implication)

(***************************************************************************)
(* Database (database.py): table trigger_events.                           *)
(***************************************************************************)
\* Most rows the table gets.
MaxRows == 3

\* A Database call with its argument, what it returned and what it raised.
Call(op, arg, result, e) == [op |-> op, arg |-> arg, result |-> result, exc |-> e]

\* Lines 227-244: the table after the INSERT and the id returned.  Column
\* new_value is NOT NULL (line 99); detected_at is the event's, else now:
\* the time of the n-th insert is n.
insert_trigger_event(table, event) ==
    IF event.new_value = NoText
    THEN [table |-> table, result |-> 0, exc |-> "IntegrityError"]
    ELSE LET id == Len(table) + 1
             row == [event EXCEPT !.id = id,
                                  !.detected_at = IF event.detected_at # 0
                                                  THEN event.detected_at ELSE id]
         IN  [table |-> Append(table, row), result |-> id, exc |-> ""]

\* The place of an outreach_score in SQLite's ascending order of a TEXT
\* column: NULL first, then text by its bytes.
ScoreRank(score) ==
    IF score.t = "NoneType" THEN 0
    ELSE CASE score.v = "High" -> 1
           [] score.v = "Low" -> 2
           [] score.v = "Medium" -> 3
           [] OTHER -> 4

\* ORDER BY outreach_score DESC, detected_at DESC
RECURSIVE OrderPending(_)
OrderPending(rows) ==
    IF Len(rows) = 0 THEN <<>>
    ELSE LET Before(a, b) ==
                 \/ ScoreRank(a.outreach_score) > ScoreRank(b.outreach_score)
                 \/ /\ ScoreRank(a.outreach_score) = ScoreRank(b.outreach_score)
                    /\ a.detected_at >= b.detected_at
             first == CHOOSE i \in DOMAIN rows :
                         \A j \in DOMAIN rows : Before(rows[i], rows[j])
         IN  <<rows[first]>>
             \o OrderPending(SelectSeq(rows, LAMBDA r : r.id # rows[first].id))

\* Lines 246-254.
get_pending_events(table) ==
    OrderPending(SelectSeq(table, LAMBDA row : row.delivery_status = "pending"))

\* Mutant: the UPDATE without its WHERE clause.
mark_every_event_delivered(table, event_ids) ==
    [n \in DOMAIN table |-> [table[n] EXCEPT !.delivery_status = "delivered"]]

\* Lines 256-265.
mark_events_delivered(table, event_ids) ==
    [n \in DOMAIN table |->
        IF table[n].id \in Range(event_ids)
        THEN [table[n] EXCEPT !.delivery_status = "delivered"]
        ELSE table[n]]

\* A reply with a full entry for each event of a list.
FullReply(n) ==
    [kind |-> "response", exc |-> "",
     content |-> <<json_dumps(Dict1("events", PyList([i \in 1..n |-> FullEntry])))>>]

ApiError == [kind |-> "raises", exc |-> "APIConnectionError", content |-> <<>>]

\* The events callers insert: the detector's, enriched from a reply or by
\* the fallback.
EnrichedEvents ==
    UNION {{analyse_rto_events(<<ev>>, FullReply(1))[1],
            analyse_rto_events(<<ev>>, ApiError)[1]} : ev \in DetectedEvents(AlphaTraining)}

\* The lists of ids mark_events_delivered is called with: ids of rows and
\* ids of no row.
IdLists == SeqsUpTo(1..(MaxRows + 1), 2)

LifecycleInit ==
    /\ StoreEmpty
    /\ DetectorIdle /\ AnalyserIdle /\ PipelineIdle /\ CollectionIdle /\ ClientIdle

InsertTriggerEvent ==
    /\ Len(trigger_events) < MaxRows
    /\ \E event \in EnrichedEvents :
          LET r == insert_trigger_event(trigger_events, event)
          IN  /\ trigger_events' = r.table
              /\ db_call' = Call("insert_trigger_event", event, r.result, r.exc)
    /\ UNCHANGED baselines
    /\ UNCHANGED <<detectorVars, analyserVars, pipelineVars, collectionVars, clientVars>>

GetPendingEvents ==
    /\ db_call' = Call("get_pending_events", <<>>, get_pending_events(trigger_events), "")
    /\ UNCHANGED <<trigger_events, baselines>>
    /\ UNCHANGED <<detectorVars, analyserVars, pipelineVars, collectionVars, clientVars>>

MarkEventsDelivered ==
    /\ \E event_ids \in IdLists :
          /\ trigger_events' = mark_events_delivered(trigger_events, event_ids)
          /\ db_call' = Call("mark_events_delivered", event_ids, None, "")
    /\ UNCHANGED baselines
    /\ UNCHANGED <<detectorVars, analyserVars, pipelineVars, collectionVars, clientVars>>

LifecycleNext == InsertTriggerEvent \/ GetPendingEvents \/ MarkEventsDelivered

LifecycleSpec == LifecycleInit /\ [][LifecycleNext]_vars

\* C17: over any sequence of insert_trigger_event, get_pending_events and
\* mark_events_delivered calls no stored event is removed or rewritten, a
\* row whose delivery_status is 'delivered' stays 'delivered', and only
\* mark_events_delivered changes a delivery_status, to 'delivered' and only
\* of the rows whose ids it was given.
C17_NoBackwardNoDeletion ==
    [][/\ Len(trigger_events') >= Len(trigger_events)
       /\ \A n \in DOMAIN trigger_events :
             /\ [trigger_events'[n] EXCEPT !.delivery_status = ""]
                   = [trigger_events[n] EXCEPT !.delivery_status = ""]
             /\ trigger_events[n].delivery_status = "delivered"
                   => trigger_events'[n].delivery_status = "delivered"
             /\ trigger_events'[n].delivery_status # trigger_events[n].delivery_status
                   => /\ db_call'.op = "mark_events_delivered"
                      /\ trigger_events[n].id \in Range(db_call'.arg)
                      /\ trigger_events'[n].delivery_status = "delivered"]_vars

C17_Witness ==
    /\ db_call.op = "get_pending_events"
    /\ Len(trigger_events) = 3
    /\ trigger_events[1].delivery_status = "pending"
    /\ trigger_events[2].delivery_status = "delivered"
    /\ trigger_events[3].delivery_status = "pending"
    /\ Len(db_call.result) = 2
    /\ {db_call.result[1].id, db_call.result[2].id} = {1, 3}

(***************************************************************************)
(* Database (database.py): table baselines.  A row is                      *)
(* [id, rto_code, endpoint, data_json].  Column data_hash is written and   *)
(* never read by get_baseline; it is left out.                             *)
(***************************************************************************)
\* Most rows table baselines is given in a model run.
MaxStores == 3

\* The rows of a slot: the rows WHERE rto_code = ? AND endpoint = ?.
SlotRows(table, code, endpoint) ==
    SelectSeq(table, LAMBDA row : row.rto_code = code /\ row.endpoint = endpoint)

\* id INTEGER PRIMARY KEY AUTOINCREMENT: one more than the largest id used.
\* The row inserted last is in the table until a later insert replaces it,
\* so the largest id used is the largest id in the table.
NextId(table) ==
    IF Len(table) = 0 THEN 1
    ELSE 1 + (CHOOSE n \in {table[i].id : i \in DOMAIN table} :
                 \A i \in DOMAIN table : table[i].id <= n)

\* Mutant: plain INSERT into a table without UNIQUE(rto_code, endpoint).
store_baseline_no_unique(table, code, endpoint, data) ==
    Append(table, [id |-> NextId(table), rto_code |-> code, endpoint |-> endpoint,
                   data_json |-> json_dumps_sort_keys(data)])

\* INSERT OR REPLACE on UNIQUE(rto_code, endpoint), lines 191-202: the row
\* in conflict is deleted and the new row inserted.
store_baseline(table, code, endpoint, data) ==
    Append(SelectSeq(table, LAMBDA row : ~(row.rto_code = code /\ row.endpoint = endpoint)),
           [id |-> NextId(table), rto_code |-> code, endpoint |-> endpoint,
            data_json |-> json_dumps_sort_keys(data)])

\* Lines 204-214: fetchone() of the SELECT.
get_baseline(table, code, endpoint) ==
    LET rows == SlotRows(table, code, endpoint)
    IN  IF Len(rows) = 0 THEN None ELSE json_loads(rows[1].data_json).v

\* The slots and the payloads of the calls: null, empty and filled ones.
BaselineSlots == {"0101", "0202"} \X {"scope", "registration"}

StoredPayloads ==
    {None, PyDict(<<>>), PyList(<<>>), Dict2("status", PyStr("Active"), "name", PyInt(1)),
     PyList(<<Dict1("code", PyStr("Active"))>>)}

BaselineInit ==
    /\ StoreEmpty
    /\ DetectorIdle /\ AnalyserIdle /\ PipelineIdle /\ CollectionIdle /\ ClientIdle

\* The argument of a store_baseline call is <<slot, data, times>>: times
\* counts the calls in a row with this slot and this data, this one included.
StoreBaseline ==
    /\ NextId(baselines) <= MaxStores
    /\ \E slot \in BaselineSlots, data \in StoredPayloads :
          LET again == /\ db_call.op = "store_baseline"
                       /\ db_call.arg[1] = slot
                       /\ db_call.arg[2] = data
              times == IF again THEN db_call.arg[3] + 1 ELSE 1
          IN  /\ baselines' = store_baseline(baselines, slot[1], slot[2], data)
              /\ db_call' = Call("store_baseline", <<slot, data, times>>, None, "")
    /\ UNCHANGED trigger_events
    /\ UNCHANGED <<detectorVars, analyserVars, pipelineVars, collectionVars, clientVars>>

GetBaseline ==
    /\ \E slot \in BaselineSlots :
          db_call' = Call("get_baseline", slot, get_baseline(baselines, slot[1], slot[2]), "")
    /\ UNCHANGED <<trigger_events, baselines>>
    /\ UNCHANGED <<detectorVars, analyserVars, pipelineVars, collectionVars, clientVars>>

BaselineNext == StoreBaseline \/ GetBaseline

BaselineSpec == BaselineInit /\ [][BaselineNext]_vars

\* C20: get_baseline returns None (absent) for a slot that was never
\* stored and only for such a slot: for a slot stored with any payload,
\* null and empty ones included, it returns a value that is not None, so
\* the detector can tell "never observed" from "observed as null or empty".
C20_AbsentOnlyIfNeverStored ==
    db_call.op = "get_baseline"
    => (db_call.result.t = "NoneType"
        <=> Len(SlotRows(baselines, db_call.arg[1], db_call.arg[2])) = 0)

\* Python's == on two JSON values: dicts equal whatever the order of their
\* keys, lists equal item by item.
RECURSIVE PyEq(_, _)
PyEq(a, b) ==
    /\ a.t = b.t
    /\ CASE a.t = "dict" ->
              /\ Range(DictKeys(a)) = Range(DictKeys(b))
              /\ \A k \in Range(DictKeys(a)) : PyEq(DictGet(a, k), DictGet(b, k))
         [] a.t = "list" ->
              /\ Len(a.v) = Len(b.v)
              /\ \A i \in DOMAIN a.v : PyEq(a.v[i], b.v[i])
         [] OTHER -> a.v = b.v

\* C21: put is idempotent and round-trips.  After store_baseline(e, r, p),
\* called once or several times in a row, the table holds exactly one row
\* for the slot (e, r), get_baseline(e, r) returns a payload equal to p, and
\* detecting p as current against that baseline gives no event.
C21_PutIdempotentRoundTrip ==
    db_call.op = "store_baseline"
    => LET code == db_call.arg[1][1]
           endpoint == db_call.arg[1][2]
           p == db_call.arg[2]
           stored == get_baseline(baselines, code, endpoint)
       IN  /\ Len(SlotRows(baselines, code, endpoint)) = 1
           /\ PyEq(stored, p)
           /\ \A paired \in BOOLEAN :
                 detect_endpoint_changes(code, "Alpha Training", endpoint, p, stored, paired)
                 = Returned(<<>>)

\* A payload whose keys sort_keys reorders has been stored twice in a row in
\* a slot, with a row of another slot beside it.
C21_Witness ==
    /\ db_call.op = "store_baseline"
    /\ db_call.arg[2] = Dict2("status", PyStr("Active"), "name", PyInt(1))
    /\ db_call.arg[3] = 2
    /\ Len(baselines) = 2

(***************************************************************************)
(* run_pipeline (main.py), phases 3 and 4: analysis of the events phase 2  *)
(* collected, their insertion into trigger_events, and delivery.           *)
(***************************************************************************)
\* Lines 119-123: the values of events_by_rto, in the order of the first
\* event of each RTO.
RECURSIVE GroupByRto(_)
GroupByRto(evs) ==
    IF Len(evs) = 0 THEN <<>>
    ELSE <<SelectSeq(evs, LAMBDA e : e.rto_code = evs[1].rto_code)>>
         \o GroupByRto(SelectSeq(evs, LAMBDA e : e.rto_code # evs[1].rto_code))

\* What the model may reply for a group of n events: a full entry, a score
\* alone or a null score for each event, or an error.
GroupReplies(n) ==
    {FullReply(n), ApiError}
    \cup {[kind |-> "response", exc |-> "",
           content |-> <<json_dumps(Dict1("events", PyList([i \in 1..n |-> entry])))>>] :
             entry \in {ScoreOnlyEntry, NullScoreEntry}}

\* Lines 148-149: the inserts, one event after the other, up to the first
\* that raises.
RECURSIVE InsertAll(_, _)
InsertAll(table, evs) ==
    IF Len(evs) = 0 THEN [table |-> table, exc |-> ""]
    ELSE LET r == insert_trigger_event(table, evs[1])
         IN  IF r.exc # "" THEN [table |-> table, exc |-> r.exc]
             ELSE InsertAll(r.table, Tail(evs))

\* sorted(items, key=...): keys[i] is the key of items[i], one of 0..3;
\* the sort is stable.
SortedByKey(items, keys) ==
    LET Pick(n) == SelectSeq([i \in DOMAIN items |-> i], LAMBDA i : keys[i] = n)
        order == Pick(0) \o Pick(1) \o Pick(2) \o Pick(3)
    IN  [j \in DOMAIN order |-> items[order[j]]]

\* digest.py 134-139
rto_priority(rto_events_) ==
    IF \E i \in DOMAIN rto_events_ : rto_events_[i].outreach_score = PyStr("High") THEN 0
    ELSE IF \E i \in DOMAIN rto_events_ : rto_events_[i].outreach_score = PyStr("Medium")
    THEN 1
    ELSE 2

\* digest.py 152-155
score_order(event) ==
    IF event.outreach_score = PyStr("High") THEN 0
    ELSE IF event.outreach_score = PyStr("Medium") THEN 1
    ELSE IF event.outreach_score = PyStr("Low") THEN 2
    ELSE 3

\* Concatenation of a list of lists.
RECURSIVE Flatten(_)
Flatten(lists) == IF Len(lists) = 0 THEN <<>> ELSE lists[1] \o Flatten(Tail(lists))

\* digest.py format_digest: the page, as the events it shows in its order;
\* outreach_score.lower() raises on a score that is None.
format_digest(evs) ==
    IF \E i \in DOMAIN evs : evs[i].outreach_score.t # "str"
    THEN [exc |-> "AttributeError", html |-> None]
    ELSE LET by_rto == GroupByRto(evs)
             sorted_rtos ==
                 SortedByKey(by_rto, [g \in DOMAIN by_rto |-> rto_priority(by_rto[g])])
             sorted_events(g) ==
                 SortedByKey(sorted_rtos[g],
                             [i \in DOMAIN sorted_rtos[g] |-> score_order(sorted_rtos[g][i])])
         IN  [exc |-> "",
              html |-> PyStr(Flatten([g \in DOMAIN sorted_rtos |-> sorted_events(g)]))]

PipelineInit ==
    /\ run_pc = "analysis"
    /\ \E a \in SeqsUpTo(DetectedEvents(AlphaTraining), MaxEvents),
          b \in SeqsUpTo(DetectedEvents(BetaCollege), 1) : all_events = a \o b
    /\ groups = <<>>
    /\ enriched_events = <<>>
    /\ html_digest = None
    /\ posts = <<>>
    /\ webhooks \in [digest : BOOLEAN, sheets : BOOLEAN]
    /\ run_exc = ""
    /\ StoreEmpty
    /\ DetectorIdle /\ AnalyserIdle /\ CollectionIdle /\ ClientIdle

\* Lines 115-130 and 153-155.
GroupEvents ==
    /\ run_pc = "analysis"
    /\ IF Len(all_events) > 0
       THEN groups' = GroupByRto(all_events) /\ run_pc' = "analyse"
       ELSE groups' = <<>> /\ run_pc' = "digest"
    /\ UNCHANGED <<all_events, enriched_events, html_digest, posts, webhooks, run_exc>>
    /\ UNCHANGED <<detectorVars, analyserVars, storeVars, collectionVars, clientVars>>

\* Lines 131-145: one iteration of the loop over events_by_rto.
AnalyseGroup ==
    /\ run_pc = "analyse"
    /\ Len(groups) > 0
    /\ \E r \in GroupReplies(Len(groups[1])) :
          enriched_events' = enriched_events \o analyse_rto_events(groups[1], r)
    /\ groups' = Tail(groups)
    /\ UNCHANGED <<run_pc, all_events, html_digest, posts, webhooks, run_exc>>
    /\ UNCHANGED <<detectorVars, analyserVars, storeVars, collectionVars, clientVars>>

\* Lines 147-151: an insert that raises ends the run.
StoreEvents ==
    /\ run_pc = "analyse"
    /\ Len(groups) = 0
    /\ LET r == InsertAll(trigger_events, enriched_events)
       IN  /\ trigger_events' = r.table
           /\ db_call' = Call("insert_trigger_event", <<>>, Len(r.table), r.exc)
           /\ run_exc' = r.exc
           /\ run_pc' = IF r.exc = "" THEN "digest" ELSE "crashed"
    /\ UNCHANGED <<all_events, groups, enriched_events, html_digest, posts, webhooks,
                   baselines>>
    /\ UNCHANGED <<detectorVars, analyserVars, collectionVars, clientVars>>

\* Lines 160-184: the digest rendered and saved to a file.
FormatDigest ==
    /\ run_pc = "digest"
    /\ LET r == format_digest(enriched_events)
       IN  /\ html_digest' = r.html
           /\ run_exc' = r.exc
           /\ run_pc' = IF r.exc = "" THEN "send_digest" ELSE "crashed"
    /\ UNCHANGED <<all_events, groups, enriched_events, posts, webhooks>>
    /\ UNCHANGED <<detectorVars, analyserVars, storeVars, collectionVars, clientVars>>

\* Lines 186-193: the post succeeds or fails; the run goes on either way.
SendDigest ==
    /\ run_pc = "send_digest"
    /\ IF webhooks.digest
       THEN \E success \in BOOLEAN :
               posts' = Append(posts, [type |-> "digest", success |-> success])
       ELSE UNCHANGED posts
    /\ run_pc' = "send_sheets"
    /\ UNCHANGED <<all_events, groups, enriched_events, html_digest, webhooks, run_exc>>
    /\ UNCHANGED <<detectorVars, analyserVars, storeVars, collectionVars, clientVars>>

\* Lines 195-202.
SendEventsToSheets ==
    /\ run_pc = "send_sheets"
    /\ IF webhooks.sheets /\ Len(enriched_events) > 0
       THEN \E success \in BOOLEAN :
               posts' = Append(posts, [type |-> "events", success |-> success])
       ELSE UNCHANGED posts
    /\ run_pc' = "save"
    /\ UNCHANGED <<all_events, groups, enriched_events, html_digest, webhooks, run_exc>>
    /\ UNCHANGED <<detectorVars, analyserVars, storeVars, collectionVars, clientVars>>

\* Lines 204-226: the events file, then db.close().
SaveAndClose ==
    /\ run_pc = "save"
    /\ run_pc' = "closed"
    /\ UNCHANGED <<all_events, groups, enriched_events, html_digest, posts, webhooks,
                   run_exc>>
    /\ UNCHANGED <<detectorVars, analyserVars, storeVars, collectionVars, clientVars>>

PipelineNext ==
    \/ GroupEvents
    \/ AnalyseGroup
    \/ StoreEvents
    \/ FormatDigest
    \/ SendDigest
    \/ SendEventsToSheets
    \/ SaveAndClose

PipelineSpec == PipelineInit /\ [][PipelineNext]_vars

\* The event is shown in the digest of the run, and the digest was posted
\* to its webhook with success.
HandedToDelivery(event) ==
    /\ html_digest.t = "str"
    /\ \E k \in DOMAIN html_digest.v : html_digest.v[k] = event
    /\ \E k \in DOMAIN posts : posts[k] = [type |-> "digest", success |-> TRUE]

\* C18: every enriched event a run hands to Delivery (it is in the digest
\* rendered, the digest is posted) is delivered when the run ends: the
\* delivery_status of its row has gone from 'pending' to 'delivered'.
C18_HandedEventsDelivered ==
    run_pc = "closed"
    => \A n \in DOMAIN enriched_events :
          HandedToDelivery(enriched_events[n])
          => /\ n \in DOMAIN trigger_events
             /\ trigger_events[n].delivery_status = "delivered"

(***************************************************************************)
(* run_pipeline (main.py), phase 2: for each prospect the six resources    *)
(* are fetched, the baselines read, the changes detected and the baselines *)
(* written.  run_weekly_pipeline (weekly_run.py, lines 82-134) has the     *)
(* same loop.                                                              *)
(***************************************************************************)
\* Runs a deployment is followed for.
MaxCycles == 2

\* db.get_all_prospect_codes()
prospect_codes == <<"0101", "0202">>

\* prospect.name of db.get_prospect(rto_code)
ProspectName(code) == (CHOOSE p \in Prospects : p.rto_code = code).name

\* The keys of the dict get_full_rto_data returns, in its order.
Resources == <<"organisation">> \o Endpoints

\* What get_full_rto_data may return for a prospect: the organisation, a
\* scope or none, a registration of one or the other status.
Observations ==
    {[organisation |-> Dict1("name", PyStr("Active")), scope |-> s, regulatory |-> None,
      registration |-> r, contacts |-> None, restrictions |-> None] :
        s \in {None, PyList(<<Dict1("code", PyStr("Active"))>>)},
        r \in {Dict1("status", PyStr("Active")), Dict1("status", PyStr("Suspended"))}}

\* detect_all_changes (differ.py 28-57) as one call: the events of the
\* endpoints in order, or the exception of the first endpoint that raises.
detect_all_changes(code, name, data, baseline, paired) ==
    LET current_of(i) == Get(data, Endpoints[i])
        baseline_of(i) == Get(baseline, Endpoints[i])
        taken(i) == ~(current_of(i) = None /\ baseline_of(i) = None)
        r(i) == detect_endpoint_changes(code, name, Endpoints[i], current_of(i),
                                        baseline_of(i), paired)
        raising == {i \in DOMAIN Endpoints : taken(i) /\ r(i).exc # ""}
        first == CHOOSE i \in raising : \A j \in raising : i <= j
        found(i) == IF taken(i) THEN r(i).events ELSE <<>>
    IN  IF raising # {} THEN Raised(r(first).exc)
        ELSE Returned(found(1) \o found(2) \o found(3) \o found(4) \o found(5))

\* Lines 95-97: the loop over current_data.items(), from its item i on.
RECURSIVE update_baseline(_, _, _, _)
update_baseline(table, code, data, i) ==
    IF i > Len(Resources) THEN table
    ELSE LET stored == IF data[Resources[i]] # None
                       THEN store_baseline(table, code, Resources[i], data[Resources[i]])
                       ELSE table
         IN  CHOOSE result \in {update_baseline(t, code, data, i + 1) : t \in {stored}} : TRUE

\* Mutant: the baselines written whether or not detection raised.
after_detection_always_stores(table, code, data, d) ==
    [table |-> update_baseline(table, code, data, 1),
     events |-> [n \in DOMAIN d.events |-> NewEvent(d.events[n])], exc |-> d.exc]

\* Lines 88-107, the try block for one prospect once detect_all_changes has
\* returned or raised d: the table it leaves, the events it adds to
\* all_events, the exception the except clause caught.
after_detection(table, code, data, d) ==
    IF d.exc # "" THEN [table |-> table, events |-> <<>>, exc |-> d.exc]
    ELSE [table |-> update_baseline(table, code, data, 1),
          events |-> [n \in DOMAIN d.events |-> NewEvent(d.events[n])], exc |-> ""]

\* scripts/init_baseline.py: what was fetched is stored, prospect by
\* prospect.
RECURSIVE init_baseline(_, _)
init_baseline(table, fetched) ==
    IF Len(fetched) = 0 THEN table
    ELSE init_baseline(update_baseline(table, prospect_codes[Len(prospect_codes)
                                                              - Len(fetched) + 1],
                                       fetched[1], 1),
                       Tail(fetched))

NotTaken == [data |-> <<>>, outcome |-> "none", events |-> <<>>]

\* The tables a first run may find: empty, or as init_baseline left it.
CollectionStart(tables) ==
    /\ cycle = 1
    /\ prospect_index = 0
    /\ success_count = 0
    /\ error_count = 0
    /\ this_cycle = [n \in DOMAIN prospect_codes |-> NotTaken]
    /\ last_cycle = [n \in DOMAIN prospect_codes |-> NotTaken]
    /\ baselines \in tables
    /\ trigger_events = <<>>
    /\ db_call = NoCall
    /\ run_pc = "collect"
    /\ all_events = <<>>
    /\ groups = <<>>
    /\ enriched_events = <<>>
    /\ html_digest = None
    /\ posts = <<>>
    /\ run_exc = ""
    /\ DetectorIdle /\ AnalyserIdle /\ ClientIdle

CycleInit ==
    /\ CollectionStart({<<>>} \cup {init_baseline(<<>>, <<a, a>>) : a \in Observations})
    /\ webhooks = [digest |-> FALSE, sheets |-> FALSE]

\* Lines 64-107: one iteration of the for loop over prospect_codes: the data
\* fetched, the baselines read, the changes detected, the rest of the try
\* block.  No list of the observations has two items, so DeepDiff has no
\* pair of items to make.
ProcessProspect ==
    /\ run_pc = "collect"
    /\ prospect_index < Len(prospect_codes)
    /\ \E data \in Observations :
          \E baseline \in {[e \in EndpointSet |->
                               get_baseline(baselines, prospect_codes[prospect_index + 1], e)]} :
          \E d \in {detect_all_changes(prospect_codes[prospect_index + 1],
                                       ProspectName(prospect_codes[prospect_index + 1]),
                                       data, baseline, FALSE)} :
          \E r \in {after_detection(baselines, prospect_codes[prospect_index + 1], data, d)} :
              /\ baselines' = r.table
              /\ all_events' = all_events \o r.events
              /\ success_count' = IF r.exc = "" THEN success_count + 1 ELSE success_count
              /\ error_count' = IF r.exc = "" THEN error_count ELSE error_count + 1
              /\ this_cycle' = [this_cycle EXCEPT ![prospect_index + 1] =
                                   [data |-> data,
                                    outcome |-> IF r.exc = "" THEN "success" ELSE "error",
                                    events |-> r.events]]
    /\ prospect_index' = prospect_index + 1
    /\ UNCHANGED <<cycle, last_cycle, trigger_events, db_call>>
    /\ UNCHANGED <<run_pc, groups, enriched_events, html_digest, posts, webhooks, run_exc>>
    /\ UNCHANGED <<detectorVars, analyserVars, clientVars>>

\* The loop is over; the run goes on to phases 3 and 4, which write neither
\* the baselines nor the variables of the loop, and the next run starts
\* (lines 27-62).
NextRun ==
    /\ run_pc = "collect"
    /\ prospect_index = Len(prospect_codes)
    /\ cycle < MaxCycles
    /\ cycle' = cycle + 1
    /\ prospect_index' = 0
    /\ success_count' = 0
    /\ error_count' = 0
    /\ last_cycle' = this_cycle
    /\ this_cycle' = [n \in DOMAIN prospect_codes |-> NotTaken]
    /\ all_events' = <<>>
    /\ UNCHANGED <<trigger_events, baselines, db_call>>
    /\ UNCHANGED <<run_pc, groups, enriched_events, html_digest, posts, webhooks, run_exc>>
    /\ UNCHANGED <<detectorVars, analyserVars, clientVars>>

CycleNext == ProcessProspect \/ NextRun

CycleSpec == CycleInit /\ [][CycleNext]_vars

\* The loop of the DetectEndpoint steps computes detect_all_changes.
DetectStepsAreTheCall ==
    pc \in {"returned", "raised"}
    => LET d == detect_all_changes(rto_code, rto_name, current_data, baseline_data, pairing)
       IN  d.exc = exc /\ d.events = events

\* The rows of the prospect's slots.
RowsOf(table, code) == SelectSeq(table, LAMBDA row : row.rto_code = code)

\* C22: each (entity, resource) baseline slot is overwritten in every
\* completed cycle: once the iteration of a prospect has succeeded, the
\* slot of each resource holds what this cycle observed for it, the payload
\* or its absence; and in any step a slot that holds a payload keeps one.
C22_SlotsOverwrittenEachCycle ==
    /\ \A n \in DOMAIN this_cycle :
          this_cycle[n].outcome = "success"
          => \A i \in DOMAIN Resources :
                PyEq(get_baseline(baselines, prospect_codes[n], Resources[i]),
                     this_cycle[n].data[Resources[i]])
    /\ \A n \in DOMAIN last_cycle :
          last_cycle[n].outcome = "success"
          => \A i \in DOMAIN Resources :
                last_cycle[n].data[Resources[i]] # None
                => Len(SlotRows(baselines, prospect_codes[n], Resources[i])) = 1

\* C27: a change is reported once across cycles.  If the iteration of a
\* prospect succeeded in the last cycle and this cycle observes the same
\* data for it, payload by payload and absence by absence, this cycle's
\* iteration returns no event for it.
C27_ChangeReportedOnce ==
    \A n \in DOMAIN this_cycle :
        /\ last_cycle[n].outcome = "success"
        /\ this_cycle[n].outcome # "none"
        /\ this_cycle[n].data = last_cycle[n].data
        => this_cycle[n].events = <<>>

\* C29: state is unchanged on a detection error.  In the step of an
\* iteration in which detection raises, no row of the prospect's baseline
\* slots changes and all_events gains no event; and when the iteration of a
\* prospect raised in the last cycle and this cycle fetches the same data,
\* the same difference is met: the iteration raises again.
C29_StateUnchangedOnError ==
    [][/\ prospect_index' = prospect_index + 1
           /\ this_cycle'[prospect_index'].outcome = "error"
           => /\ RowsOf(baselines', prospect_codes[prospect_index'])
                 = RowsOf(baselines, prospect_codes[prospect_index'])
              /\ all_events' = all_events
       /\ prospect_index' = prospect_index + 1
           /\ last_cycle'[prospect_index'].outcome = "error"
           /\ this_cycle'[prospect_index'].data = last_cycle'[prospect_index'].data
           => this_cycle'[prospect_index'].outcome = "error"]_vars

\* The registration of prospect 0101 changed status, detection raised in
\* two cycles in a row on the same data, and its baseline is the old one.
C29_Witness ==
    /\ cycle = 2
    /\ last_cycle[1].outcome = "error"
    /\ this_cycle[1].outcome = "error"
    /\ this_cycle[1].data = last_cycle[1].data
    /\ this_cycle[1].data.registration = Dict1("status", PyStr("Suspended"))
    /\ get_baseline(baselines, "0101", "registration") = Dict1("status", PyStr("Active"))
    /\ error_count = 1

(***************************************************************************)
(* TGAClient (tga_client.py): the tasks of one get_full_rto_data call,     *)
(* each in _request, on one event loop.                                    *)
(***************************************************************************)
\* Tasks of the call that are followed (the code gathers six).
MaxTasks == 2

\* The arguments of the constructor, the times in ticks.
rate_limit_seconds == 2

max_retries == 2

timeout == 3

\* The resources of the tasks followed.
TaskResources == SubSeq(Resources, 1, MaxTasks)

\* The body of a 200 response.
ResponseJson == Dict1("name", PyStr("Active"))

\* What an attempt may meet: a status code, a 200 whose body is no JSON,
\* the timeout, another exception of the transport.
Outcomes ==
    {"200", "200 not json", "404", "429", "500", "503", "403", "TimeoutException",
     "ConnectError"}

\* 2**attempt
RECURSIVE Power2(_)
Power2(n) == IF n = 0 THEN 1 ELSE 2 * Power2(n - 1)

Return_(result) == [next |-> "return", result |-> result, wait |-> 0, exc |-> ""]

Continue_(wait) == [next |-> "continue", result |-> None, wait |-> wait, exc |-> ""]

\* Mutant: no except Exception clause, so what is no timeout leaves _request.
after_response_no_except(attempt, outcome) ==
    CASE outcome = "200" -> Return_(ResponseJson)
      [] outcome = "404" -> Return_(None)
      [] outcome \in {"429", "500", "503"} -> Continue_(Power2(attempt))
      [] outcome = "TimeoutException" ->
           IF attempt < max_retries - 1 THEN Continue_(Power2(attempt)) ELSE Return_(None)
      [] outcome \in {"200 not json", "ConnectError"} ->
           [next |-> "raise", result |-> None, wait |-> 0, exc |-> outcome]
      [] OTHER -> Return_(None)

\* Lines 66-110: what the loop body does with the outcome of its request.
\* response.json() raising on a body that is no JSON is caught at line 108.
after_response(attempt, outcome) ==
    CASE outcome = "200" -> Return_(ResponseJson)
      [] outcome = "404" -> Return_(None)
      [] outcome \in {"429", "500", "503"} -> Continue_(Power2(attempt))
      [] outcome = "TimeoutException" ->
           IF attempt < max_retries - 1 THEN Continue_(Power2(attempt)) ELSE Return_(None)
      [] outcome \in {"200 not json", "ConnectError"} -> Return_(None)
      [] OTHER -> Return_(None)

\* The semaphore after a release: the first waiter, if any, holds it.
Released == 
    IF Len(semaphore.waiters) = 0 THEN [locked |-> FALSE, waiters |-> <<>>]
    ELSE [locked |-> TRUE, waiters |-> Tail(semaphore.waiters)]

\* Line 46 and the exit of the async with of line 41, then lines 66-69:
\* _last_request_time is set, the semaphore released, the request sent.
SendRequest(t) ==
    /\ elapsed' = 0
    /\ semaphore' = Released
    /\ tasks' = [i \in DOMAIN tasks |->
                    IF i = t THEN [tasks[i] EXCEPT !.pc = "get", !.timer = 0]
                    ELSE IF Len(semaphore.waiters) > 0 /\ i = semaphore.waiters[1]
                    THEN [tasks[i] EXCEPT !.pc = "acquired"]
                    ELSE tasks[i]]
    /\ requests' = Append(requests, [task |-> t, gap |-> elapsed])

\* Lines 42-46 with the semaphore held: sleep for what is left of the
\* interval, or go on at once.
Throttle(t) ==
    IF elapsed < rate_limit_seconds
    THEN /\ tasks' = [tasks EXCEPT ![t].pc = "sleeping",
                                   ![t].timer = rate_limit_seconds - elapsed]
         /\ semaphore' = [semaphore EXCEPT !.locked = TRUE]
         /\ UNCHANGED <<elapsed, requests>>
    ELSE SendRequest(t)

ClientInit ==
    /\ elapsed \in 0..rate_limit_seconds
    /\ semaphore = [locked |-> FALSE, waiters |-> <<>>]
    /\ tasks = [t \in 1..MaxTasks |->
                   [pc |-> "attempt", attempt |-> 0, timer |-> 0, waits |-> <<>>,
                    result |-> None, exc |-> ""]]
    /\ requests = <<>>
    /\ rto_data = <<>>
    /\ DetectorIdle /\ AnalyserIdle /\ StoreEmpty /\ PipelineIdle /\ CollectionIdle

\* Line 64 and line 41: the task enters _throttle and acquires the
\* semaphore, or waits for it.
Acquire ==
    \E t \in DOMAIN tasks :
        /\ tasks[t].pc = "attempt"
        /\ IF semaphore.locked
           THEN /\ semaphore' = [semaphore EXCEPT !.waiters = Append(@, t)]
                /\ tasks' = [tasks EXCEPT ![t].pc = "waiting"]
                /\ UNCHANGED <<elapsed, requests>>
           ELSE Throttle(t)
        /\ UNCHANGED rto_data
        /\ UNCHANGED <<detectorVars, analyserVars, storeVars, pipelineVars, collectionVars>>

\* Line 41: a task that waited has the semaphore.
Resume ==
    \E t \in DOMAIN tasks :
        /\ tasks[t].pc = "acquired"
        /\ Throttle(t)
        /\ UNCHANGED rto_data
        /\ UNCHANGED <<detectorVars, analyserVars, storeVars, pipelineVars, collectionVars>>

\* Line 45: the sleep of _throttle is over.
Wake ==
    \E t \in DOMAIN tasks :
        /\ tasks[t].pc = "sleeping"
        /\ tasks[t].timer = 0
        /\ SendRequest(t)
        /\ UNCHANGED rto_data
        /\ UNCHANGED <<detectorVars, analyserVars, storeVars, pipelineVars, collectionVars>>

\* Lines 67-110: the request ends, by a response before the timeout, by the
\* timeout or by another exception.
Respond ==
    \E t \in DOMAIN tasks :
        /\ tasks[t].pc = "get"
        /\ \E outcome \in Outcomes :
              /\ outcome = "TimeoutException" <=> tasks[t].timer = timeout
              /\ \E r \in {after_response(tasks[t].attempt, outcome)} :
                    tasks' = [tasks EXCEPT ![t] =
                        CASE r.next = "return" -> [@ EXCEPT !.pc = "done", !.result = r.result]
                          [] r.next = "continue" ->
                               [@ EXCEPT !.pc = "backoff", !.timer = r.wait,
                                         !.waits = Append(@, [attempt |-> tasks[t].attempt,
                                                              seconds |-> r.wait])]
                          [] r.next = "raise" -> [@ EXCEPT !.pc = "raised", !.exc = r.exc]]
        /\ UNCHANGED <<elapsed, semaphore, requests, rto_data>>
        /\ UNCHANGED <<detectorVars, analyserVars, storeVars, pipelineVars, collectionVars>>

\* Lines 88-89 and 104-105, then line 62 or lines 112-113: the sleep after
\* an attempt is over; the next attempt, or None when the range is used up.
Retry ==
    \E t \in DOMAIN tasks :
        /\ tasks[t].pc = "backoff"
        /\ tasks[t].timer = 0
        /\ tasks' = [tasks EXCEPT ![t] =
                        IF tasks[t].attempt + 1 < max_retries
                        THEN [@ EXCEPT !.pc = "attempt", !.attempt = @ + 1]
                        ELSE [@ EXCEPT !.pc = "done", !.result = None]]
        /\ UNCHANGED <<elapsed, semaphore, requests, rto_data>>
        /\ UNCHANGED <<detectorVars, analyserVars, storeVars, pipelineVars, collectionVars>>

\* A tick of the clock: no task is ready to run, no sleep is over, no
\* request has reached its timeout.
Tick ==
    /\ \A t \in DOMAIN tasks :
          /\ tasks[t].pc \notin {"attempt", "acquired"}
          /\ tasks[t].pc \in {"sleeping", "backoff"} => tasks[t].timer > 0
          /\ tasks[t].pc = "get" => tasks[t].timer < timeout
    /\ \E t \in DOMAIN tasks : tasks[t].pc \in {"sleeping", "backoff", "get"}
    /\ tasks' = [t \in DOMAIN tasks |->
                    IF tasks[t].pc \in {"sleeping", "backoff"}
                    THEN [tasks[t] EXCEPT !.timer = @ - 1]
                    ELSE IF tasks[t].pc = "get" THEN [tasks[t] EXCEPT !.timer = @ + 1]
                    ELSE tasks[t]]
    /\ elapsed' = IF elapsed < rate_limit_seconds THEN elapsed + 1 ELSE elapsed
    /\ UNCHANGED <<semaphore, requests, rto_data>>
    /\ UNCHANGED <<detectorVars, analyserVars, storeVars, pipelineVars, collectionVars>>

\* Lines 175-186: gather is over; an exception a task raised is None in the
\* dict.
Gather ==
    /\ rto_data = <<>>
    /\ \A t \in DOMAIN tasks : tasks[t].pc \in {"done", "raised"}
    /\ rto_data' = [e \in Range(TaskResources) |->
                       LET t == CHOOSE i \in DOMAIN TaskResources : TaskResources[i] = e
                       IN  IF tasks[t].pc = "raised" THEN None ELSE tasks[t].result]
    /\ UNCHANGED <<elapsed, semaphore, tasks, requests>>
    /\ UNCHANGED <<detectorVars, analyserVars, storeVars, pipelineVars, collectionVars>>

ClientNext ==
    \/ Acquire
    \/ Resume
    \/ Wake
    \/ Respond
    \/ Retry
    \/ Tick
    \/ Gather

ClientSpec == ClientInit /\ [][ClientNext]_vars

\* The event loop runs a task that is ready, and time passes.
FairClientSpec == ClientSpec /\ WF_vars(ClientNext)

\* C23: fetches through one TGAClient are serialized with a minimum
\* interval: no two HTTP requests are in flight at the same time, and the
\* start of a request is at least rate_limit_seconds after the start of the
\* request before it.
C23_SerializedWithMinimumInterval ==
    /\ Cardinality({t \in DOMAIN tasks : tasks[t].pc = "get"}) <= 1
    /\ \A k \in 2..Len(requests) : requests[k].gap >= rate_limit_seconds

\* The requests task t has sent.
RequestsOf(t) == SelectSeq(requests, LAMBDA r : r.task = t)

C24_Bounded ==
    /\ \A t \in DOMAIN tasks :
          /\ Len(RequestsOf(t)) <= max_retries
          /\ Len(tasks[t].waits) <= Len(RequestsOf(t))
          /\ \A k \in DOMAIN tasks[t].waits :
                /\ tasks[t].waits[k].attempt = k - 1
                /\ tasks[t].waits[k].seconds = Power2(k - 1)
          /\ tasks[t].pc # "raised"
          /\ tasks[t].exc = ""
          /\ tasks[t].result \in {None, ResponseJson}
    /\ rto_data # <<>>
       => /\ DOMAIN rto_data = Range(TaskResources)
          /\ \A e \in DOMAIN rto_data : rto_data[e] \in {None, ResponseJson}

\* C24: collector retries are bounded and every failure resolves to absent.
\* Whatever the responses, a task makes at most max_retries attempts, waits
\* 2^attempt after the attempt it retries, and ends returning the payload
\* or None, never raising; get_full_rto_data returns, with a payload or
\* None for every resource.
C24_BoundedRetriesResolveToAbsent ==
    /\ []C24_Bounded
    /\ <>(rto_data # <<>>)

\* A task used up its attempts, on a status that is retried and on a
\* timeout, after the waits 1 and 2; the other got its payload; the call
\* returned None and the payload.
C24_Witness ==
    /\ rto_data # <<>>
    /\ \E t \in DOMAIN tasks :
          /\ Len(RequestsOf(t)) = max_retries
          /\ Len(tasks[t].waits) >= 1
          /\ tasks[t].waits[1].seconds = 1
          /\ rto_data[TaskResources[t]] = None
    /\ \E t \in DOMAIN tasks : rto_data[TaskResources[t]] = ResponseJson

(***************************************************************************)
(* The values of the events against the payloads they are made of.         *)
(***************************************************************************)
\* C25: old_value and new_value are a stable-key-ordered serialization of
\* the payload fragment.  Here for a payload that is new at its endpoint:
\* the new_value of its event is the new_value the detector gives for every
\* payload that is the same JSON value, whatever the order of its keys.
C25_StableKeyOrderedValues ==
    pc = "returned"
    => \A e \in EndpointSet : \A q \in FlatDicts :
          LET current == Get(current_data, e)
              baseline == Get(baseline_data, e)
          IN  (current # None /\ baseline = None /\ PyEq(q, current))
              => \A ev \in Range(events) :
                    ev.source_url = make_source_url(rto_code, e)
                    => ev.new_value
                       = handle_new_data(rto_code, rto_name, e, q).events[1].new_value

\* C26: no scope change is dropped silently.  When the call returns and
\* the scope payloads, both present, differ under the order-insensitive
\* comparison (in added or removed keys or in the type of a value too), the
\* events returned hold at least one event for scope.
C26_NoScopeChangeDropped ==
    LET current == Get(current_data, "scope")
        baseline == Get(baseline_data, "scope")
    IN  (/\ pc = "returned"
         /\ current # None
         /\ baseline # None
         /\ DiffTruthy(DeepDiff(baseline, current, pairing)))
        => \E ev \in Range(events) : ev.source_url = make_source_url(rto_code, "scope")

(***************************************************************************)
(* One run of run_pipeline (main.py), from phase 2 to db.close(): the loop *)
(* over the prospects, then the analysis, the inserts and the delivery.    *)
(***************************************************************************)
\* What the baselines hold when the run starts for a scope and a
\* registration seen before.
SeenBefore ==
    [organisation |-> Dict1("name", PyStr("Active")),
     scope |-> PyList(<<Dict1("code", PyStr("Active"))>>), regulatory |-> None,
     registration |-> Dict1("status", PyStr("Active")), contacts |-> None,
     restrictions |-> None]

RunInit ==
    /\ CollectionStart({<<>>, init_baseline(<<>>, <<SeenBefore, SeenBefore>>)})
    /\ webhooks \in [digest : BOOLEAN, sheets : BOOLEAN]

\* Lines 109-115: the loop is over, the counts are logged, phase 3 starts.
EndCollection ==
    /\ run_pc = "collect"
    /\ prospect_index = Len(prospect_codes)
    /\ run_pc' = "analysis"
    /\ UNCHANGED <<all_events, groups, enriched_events, html_digest, posts, webhooks,
                   run_exc>>
    /\ UNCHANGED <<detectorVars, analyserVars, storeVars, collectionVars, clientVars>>

RunNext ==
    \/ ProcessProspect
    \/ EndCollection
    \/ GroupEvents
    \/ AnalyseGroup
    \/ StoreEvents
    \/ FormatDigest
    \/ SendDigest
    \/ SendEventsToSheets
    \/ SaveAndClose

RunSpec == RunInit /\ [][RunNext]_vars

\* Phase 4 has started.
InDelivery == run_pc \in {"digest", "send_digest", "send_sheets", "save", "closed"}

\* The rows of trigger_events that hold the event.
RowsWith(event) ==
    {i \in DOMAIN trigger_events : Core(trigger_events[i]) = Core(event)}

\* C28: every event the detector returned during a run is inserted into
\* trigger_events exactly once before the run ends, and the run reaches its
\* delivery phase, the events whose new_value is null included: the run
\* does not end in the inserts, and once it is in delivery every event of
\* all_events has exactly one row.
C28_EveryEventInsertedOnce ==
    /\ ~(run_pc = "crashed" /\ db_call.op = "insert_trigger_event" /\ db_call.exc # "")
    /\ InDelivery
       => \A k \in DOMAIN all_events : Cardinality(RowsWith(all_events[k])) = 1

\* When the loop is over every prospect was taken, each counted as a
\* success or as an error, and the baselines of those that succeeded hold
\* the payloads fetched.
LoopTakesEveryProspect ==
    run_pc # "collect"
    => /\ success_count + error_count = Len(prospect_codes)
       /\ \A n \in DOMAIN this_cycle :
             /\ this_cycle[n].outcome \in {"success", "error"}
             /\ this_cycle[n].outcome = "success"
                => \A i \in DOMAIN Resources :
                      this_cycle[n].data[Resources[i]] # None
                      => PyEq(get_baseline(baselines, prospect_codes[n], Resources[i]),
                              this_cycle[n].data[Resources[i]])

\* C30: errors are isolated per entity.  An exception in the iteration of
\* one prospect is counted and the loop goes on, so every other prospect is
\* fetched, diffed and has its baselines updated in the same run; and a run
\* in which an iteration raised still goes through analysis and delivery:
\* it does not end before db.close().
C30_ErrorsIsolatedPerEntity ==
    /\ LoopTakesEveryProspect
    /\ error_count > 0 => run_pc # "crashed"
====
